---- MODULE Spec2Model ----
(***************************************************************************)
(* A model of tolteca: the simulator's time-chunk planner, chunked run     *)
(* loop and command line entry (tolteca/simu2/__init__.py) and the data    *)
(* file name classifier (tolteca/fs/toltec.py), and the coverage map of    *)
(* the observation planner (tolteca/web/templates/obs_planner/toltec.py),  *)
(* and the invoker of the reduction engine                                 *)
(* (tolteca/reduce/toltec/__init__.py), and the setup command              *)
(* (tolteca/cli/setup.py).                                                 *)
(*                                                                         *)
(* Times are exact rationals: a duration is a whole number of ticks, with  *)
(* TicksPerSec ticks to the second; a sampling frequency is a whole number *)
(* of Hz.  A sample of the timeline is named by its index k (its time is   *)
(* k / f_smp seconds).  Floating-point rounding of numpy is not modelled.  *)
(*                                                                         *)
(* Pixel coordinates are whole numbers of half pixels.  An image is a      *)
(* sequence of rows.  A pixel value of an HDU is the exact number num/den, *)
(* or its square root when root is set.                                    *)
(***************************************************************************)
EXTENDS Integers, Sequences, FiniteSets, TLC

VARIABLES
    obs_params_t_exp,   \* cfg.obs_params.t_exp: <<>> for None, or <<the duration in ticks>>
    t_pattern,      \* m_mapping.t_pattern, in ticks
    plot_only,      \* cfg.plot_only
    plots,          \* cfg.plots: the plotters, in list order
    grid_size,      \* cfg.perf_params.pre_run_setup_time_grid_size
    t_exp,          \* run's local t_exp, in ticks; 0 until run binds it
    f_smp,          \* cfg.obs_params.f_smp_probing, in Hz
    chunk_len,      \* cfg.perf_params.chunk_len, in ticks
    pc,             \* position of SimulatorRuntime.run
    t_chunks,       \* run's local t_chunks: the planned chunks
    ci,             \* index (from 0) of the chunk the loop is at
    tod,            \* the value tod_eval(t) returned, not yet written
    evaluated,      \* the chunk indices tod_eval was called for, in call order
    sink,           \* the data output_ctx.write_sim_data received, in call order
    output_dir,     \* whether the output directory was created
    output_files,   \* the files run wrote besides the chunk data
    err,            \* the exception run ended with, or "none"
    log_file,       \* whether the logging to the log file was set up
    tod_evaluators, \* the pre_run_setup_time_grid of each call of sim.tod_evaluator
    plotted,        \* the plotters run called, in call order
    results,        \* the results run collected from the plotters
    filename,       \* the argument of _info_from_filename: a sequence of characters
    fs_pc,          \* position of the call of _info_from_filename
    info,           \* what _info_from_filename or info_from_filename returned
    path_dirs,      \* the directories of path, outermost first; filename is path.name
    link_target,    \* the path that path resolves to when it is a symlink, or NoneObj
    resolve,        \* the argument resolve of info_from_filename
    cli_pc,         \* position of SimulatorRuntime.cli_run
    cli_args,       \* the config of the command line arguments, NoneObj for args=None
    base_config,    \* the config of the config files
    override_config,    \* the override config of the config backend
    simu_config,    \* the cached simu_config: [cfg |-> its to_config(), validated_at
                    \* |-> the number of calls of update before its validation],
                    \* or NoneObj
    n_update,       \* the number of calls of update
    accessed,       \* what the last access of simu_config gave: [obj |-> the config
                    \* object, at |-> the number of calls of update before the access]
    lenient_mapping,    \* whether the schema of simu.mapping ignores extra keys
    cli_err,        \* the exception cli_run ended with before run, or "none"
    cov_pc,         \* position of make_traj_data
    bs_xy,          \* the pixel coordinates of the boresight samples, in half pixels
    det_xy,         \* the pixel coordinates of the detectors, in half pixels
    pixel_shape,    \* wcsobj.pixel_shape: [nx, ny]
    dt_smp,         \* the sample interval of the trajectory, in s
    nefd,           \* sens_entry['nefd']
    beam_area_pix2, \* the beam area in pixels
    coverage_map_type,  \* exec_config.instru_data['coverage_map_type']
    hdus,           \* the HDU objects, by their identity
    cov_hdulist_s_per_pix,  \* the HDUList of _make_cov_hdulist: the identities of its HDUs
    cov_hdulist,    \* the HDUList make_traj_data goes on with, or NoneObj
    bs_im,          \* the histogram of the boresight samples, times dt_smp
    cov_data,       \* make_traj_data's local cov_data
    m_cov,          \* the mask of the pixels above 2% of the peak
    cov_data_mJy_per_beam,  \* the depth map
    cov_ctr,        \* the image the contours of the outline are taken from
    red_pc,         \* position of the construction of Citlali and of its proc
    binpath,        \* the argument binpath: NoneObj, or [dir, path]
    version_specifiers,     \* the argument version_specifiers, or NoneObj
    exe_version,    \* what the executable prints for --version, NoneObj when that fails
    legacy_version, \* whether parse_version takes a string that is no PEP 440 version
    engine,         \* the constructed Citlali: [binpath, version], or NoneObj
    red_err,        \* the exception the constructor or proc ended with, or "none"
    index_table,    \* dataset.index_table: the rows of the file records
    outdir,         \* the argument outdir of proc
    cfg,            \* the config dict of proc_context
    events,         \* the files written and the programs run, in order
    n_proc,         \* the number of calls of proc
    setup_pc,       \* position of the action of the setup command
    option,         \* the parsed command line of setup: force, overwrite, dry_run
    workdir,        \* option.workdir on disk: whether it exists, and the files in it
    created,        \* the directories and files the command has created or written
    setup_err       \* the exception the action ended with, or "none"

\* what run reads of the validated config and of the mapping model
cfgVars == <<obs_params_t_exp, t_pattern, plot_only, plots, grid_size, f_smp,
             chunk_len>>

simVars == <<cfgVars, t_exp, pc, t_chunks, ci, tod, evaluated, sink,
             output_dir, output_files, err, log_file, tod_evaluators, plotted,
             results>>

fsVars == <<filename, fs_pc, info, path_dirs, link_target, resolve>>

cliVars == <<cli_pc, cli_args, base_config, override_config, simu_config, n_update, accessed,
             lenient_mapping, cli_err>>

covVars == <<cov_pc, bs_xy, det_xy, pixel_shape, dt_smp, nefd, beam_area_pix2,
             coverage_map_type, hdus, cov_hdulist_s_per_pix, cov_hdulist, bs_im,
             cov_data, m_cov, cov_data_mJy_per_beam, cov_ctr>>

redVars == <<red_pc, binpath, version_specifiers, exe_version, legacy_version,
             engine, red_err, index_table, outdir, cfg, events, n_proc>>

setupVars == <<setup_pc, option, workdir, created, setup_err>>

vars == <<simVars, fsVars, cliVars, covVars, redVars, setupVars>>

\* ------------------------------------------------------------------ bounds

TicksPerSec == 2
MaxTExp == 24
MaxFSmp == 3
MaxChunkLen == 12
MaxSamples == 3
MaxRows == 3
MaxProcCalls == 2
MaxGridSize == 3
MaxUpdates == 2

\* ------------------------------------------------------- _make_time_chunks

\* np.arange(0, t_exp, 1 / f_smp): the samples k / f_smp < t_exp, k = 0, 1, ...
ArangeFloor(texp, fsmp) ==
    LET n == Cardinality({k \in 1..(texp * fsmp) : k * TicksPerSec <= texp * fsmp})
    IN  [i \in 1..n |-> i - 1]

Arange(texp, fsmp) ==
    LET n == Cardinality({k \in 0..(texp * fsmp) : k * TicksPerSec < texp * fsmp})
    IN  [i \in 1..n |-> i - 1]

\* int((chunk_len * f_smp).to_value(dimensionless)): truncation
NTimesPerChunk(clen, fsmp) == (clen * fsmp) \div TicksPerSec

\* n_times // n_times_per_chunk + bool(n_times % n_times_per_chunk)
NChunksNoRemainder(n_times, npc) == n_times \div npc

NChunks(n_times, npc) ==
    (n_times \div npc) + (IF n_times % npc /= 0 THEN 1 ELSE 0)

Min(a, b) == IF a < b THEN a ELSE b

\* the slice t[a:b] of Python, with its bounds clamped to the length of t
SliceOffByOne(t, a, b) == SubSeq(t, Min(a, Len(t)) + 2, Min(b, Len(t)))

Slice(t, a, b) == SubSeq(t, Min(a, Len(t)) + 1, Min(b, Len(t)))

\* the loop that appends t[i * npc:(i + 1) * npc] for i in range(n_chunks)
NaiveChunks(t, npc) ==
    [i \in 1..NChunks(Len(t), npc) |-> Slice(t, (i - 1) * npc, i * npc)]

\* "merge the last chunk if it is too small"
MergeLastNonStrict(chunks) ==
    LET n == Len(chunks) IN
    IF n >= 2 /\ Len(chunks[n]) * 10 <= Len(chunks[n - 1])
    THEN [i \in 1..(n - 1) |->
            IF i = n - 1 THEN chunks[n - 1] \o chunks[n] ELSE chunks[i]]
    ELSE chunks

MergeLastDropped(chunks) ==
    LET n == Len(chunks) IN
    IF n >= 2 /\ Len(chunks[n]) * 10 < Len(chunks[n - 1])
    THEN [i \in 1..(n - 1) |-> chunks[i]]
    ELSE chunks

MergeLastInverted(chunks) ==
    LET n == Len(chunks) IN
    IF n >= 2 /\ Len(chunks[n]) * 10 > Len(chunks[n - 1])
    THEN [i \in 1..(n - 1) |->
            IF i = n - 1 THEN chunks[n - 1] \o chunks[n] ELSE chunks[i]]
    ELSE chunks

MergeLast(chunks) ==
    LET n == Len(chunks) IN
    IF n >= 2 /\ Len(chunks[n]) * 10 < Len(chunks[n - 1])
    THEN [i \in 1..(n - 1) |->
            IF i = n - 1 THEN chunks[n - 1] \o chunks[n] ELSE chunks[i]]
    ELSE chunks

\* the division by n_times_per_chunk raises ZeroDivisionError
MakeTimeChunksRaises(texp, fsmp, clen) == NTimesPerChunk(clen, fsmp) = 0

MakeTimeChunks(texp, fsmp, clen) ==
    MergeLast(NaiveChunks(Arange(texp, fsmp), NTimesPerChunk(clen, fsmp)))

\* ------------------------------------------- ToltecDataFileSpec (fs/toltec.py)
\* A string is a sequence of one-character strings.

S_toltec == <<"t", "o", "l", "t", "e", "c">>
S_wyatt == <<"w", "y", "a", "t", "t">>
S_nc == <<"n", "c">>
S_timestream == <<"t", "i", "m", "e", "s", "t", "r", "e", "a", "m">>
S_ancillary == <<"a", "n", "c", "i", "l", "l", "a", "r", "y">>

\* Python's None where a string is expected: no sequence of characters
None == <<"None">>

\* Python's None where a match, a dict or data is expected: it has none of
\* their keys
NoneObj == [none |-> TRUE]

\* the exception that leaves _info_from_filename
Raised(exc) == [raised |-> exc]

DigitChars == <<"0", "1", "2", "3", "4", "5", "6", "7", "8", "9">>
Digit == {DigitChars[i] : i \in 1..10}
UpperChars == <<"A", "B", "C", "D", "E", "F", "G", "H", "I", "J", "K", "L", "M", "N", "O", "P", "Q", "R", "S", "T", "U", "V", "W", "X", "Y", "Z">>
LowerChars == <<"a", "b", "c", "d", "e", "f", "g", "h", "i", "j", "k", "l", "m", "n", "o", "p", "q", "r", "s", "t", "u", "v", "w", "x", "y", "z">>

\* str.lower()
LowerChar(c) ==
    IF \E i \in 1..26 : UpperChars[i] = c
    THEN LowerChars[CHOOSE i \in 1..26 : UpperChars[i] = c]
    ELSE c

LowerAsIs(str) == str

Lower(str) == [i \in 1..Len(str) |-> LowerChar(str[i])]

\* int(v) of a string of digits
DigitVal(c) == (CHOOSE i \in 1..10 : DigitChars[i] = c) - 1

RECURSIVE ParseInt(_)
ParseInt(str) ==
    IF str = <<>> THEN 0
    ELSE 10 * ParseInt(SubSeq(str, 1, Len(str) - 1)) + DigitVal(str[Len(str)])

\* The matcher: a position is the index of the next character to match, and 0
\* stands for "no match".

\* the index after the longest run of characters of cls that starts at i
RECURSIVE RunEnd(_, _, _)
RunEnd(str, i, cls) ==
    IF i <= Len(str) /\ str[i] \in cls THEN RunEnd(str, i + 1, cls) ELSE i

\* a literal
Lit(str, i, lit) ==
    IF i > 0 /\ i + Len(lit) - 1 <= Len(str) /\ SubSeq(str, i, i + Len(lit) - 1) = lit
    THEN i + Len(lit) ELSE 0

\* \d+ : the run is taken whole, as what follows it in the patterns is never a digit
Digits1(str, i) ==
    IF i > 0 /\ RunEnd(str, i, Digit) > i THEN RunEnd(str, i, Digit) ELSE 0

\* \d{n}
DigitsN(str, i, n) ==
    IF i > 0 /\ i + n - 1 <= Len(str) /\ (\A j \in i..(i + n - 1) : str[j] \in Digit)
    THEN i + n ELSE 0

\* the text between two positions
Group(str, from, to) == SubSeq(str, from, to - 1)

\* (?:_(?P<kindstr>[^\/.]+))?\.(?P<fileext>.+)$ from position i: the kind and
\* the extension, or NoneObj when the tail does not match.  [^\/.]+ is taken
\* whole: the "." that must follow it cannot be inside it.
KindAndExt(str, i) ==
    LET k == RunEnd(str, i + 1, {str[j] : j \in 1..Len(str)} \ {"/", "."}) IN
    IF i = 0 THEN NoneObj
    ELSE IF Lit(str, i, <<"_">>) > 0 /\ k > i + 1 /\ Lit(str, k, <<".">>) > 0
            /\ k + 1 <= Len(str)
         THEN [kindstr |-> Group(str, i + 1, k), fileext |-> Group(str, k + 1, Len(str) + 1)]
    ELSE IF Lit(str, i, <<".">>) > 0 /\ i + 1 <= Len(str)
         THEN [kindstr |-> None, fileext |-> Group(str, i + 1, Len(str) + 1)]
    ELSE NoneObj

\* re.match(re_toltec_file, filename).groupdict(), or NoneObj for no match
ReToltecFile(str) ==
    LET p1 == Lit(str, 1, S_toltec)
        p2 == Digits1(str, p1)
        p3 == Digits1(str, Lit(str, p2, <<"_">>))
        p4 == Digits1(str, Lit(str, p3, <<"_">>))
        p5 == Digits1(str, Lit(str, p4, <<"_">>))
        u0 == Lit(str, p5, <<"_">>)
        u1 == DigitsN(str, u0, 4)
        u2 == DigitsN(str, Lit(str, u1, <<"_">>), 2)
        u3 == DigitsN(str, Lit(str, u2, <<"_">>), 2)
        u4 == DigitsN(str, Lit(str, u3, <<"_">>), 2)
        u5 == DigitsN(str, Lit(str, u4, <<"_">>), 2)
        u6 == DigitsN(str, Lit(str, u5, <<"_">>), 2)
        tail == KindAndExt(str, u6)
    IN  IF tail = NoneObj THEN NoneObj
        ELSE [interface |-> Group(str, 1, p2),
              instru |-> Group(str, 1, p1),
              nwid |-> Group(str, p1, p2),
              obsid |-> Group(str, p2 + 1, p3),
              subobsid |-> Group(str, p3 + 1, p4),
              scanid |-> Group(str, p4 + 1, p5),
              ut |-> Group(str, u0, u6),
              kindstr |-> tail.kindstr,
              fileext |-> tail.fileext]

\* re.match(re_wyatt_file, filename).groupdict(), or NoneObj for no match
ReWyattFile(str) ==
    LET p1 == Lit(str, 1, S_wyatt)
        u0 == Lit(str, p1, <<"_">>)
        u1 == DigitsN(str, u0, 4)
        u2 == DigitsN(str, Lit(str, u1, <<"-">>), 2)
        u3 == DigitsN(str, Lit(str, u2, <<"-">>), 2)
        p3 == Digits1(str, Lit(str, u3, <<"_">>))
        p4 == Digits1(str, Lit(str, p3, <<"_">>))
        p5 == Digits1(str, Lit(str, p4, <<"_">>))
        tail == KindAndExt(str, p5)
    IN  IF tail = NoneObj THEN NoneObj
        ELSE [interface |-> Group(str, 1, p1),
              instru |-> Group(str, 1, p1),
              ut |-> Group(str, u0, u3),
              obsid |-> Group(str, u3 + 1, p3),
              subobsid |-> Group(str, p3 + 1, p4),
              scanid |-> Group(str, p4 + 1, p5),
              kindstr |-> tail.kindstr,
              fileext |-> tail.fileext]

\* datetime.strptime: the fields of the timestamp; it raises ValueError when
\* they are no date and time
DaysInMonth(y, m) ==
    IF m \in {4, 6, 9, 11} THEN 30
    ELSE IF m = 2
         THEN (IF (y % 4 = 0 /\ y % 100 /= 0) \/ y % 400 = 0 THEN 29 ELSE 28)
    ELSE 31

DateTime(y, mo, d, h, mi, sec) ==
    [year |-> y, month |-> mo, day |-> d, hour |-> h, minute |-> mi, second |-> sec,
     valid |-> /\ y >= 1 /\ mo \in 1..12 /\ d >= 1 /\ d <= DaysInMonth(y, mo)
               /\ h <= 23 /\ mi <= 59 /\ sec <= 59]

\* datetime.strptime(v, '%Y_%m_%d_%H_%M_%S')
StrptimeToltec(v) ==
    DateTime(ParseInt(SubSeq(v, 1, 4)), ParseInt(SubSeq(v, 6, 7)),
             ParseInt(SubSeq(v, 9, 10)), ParseInt(SubSeq(v, 12, 13)),
             ParseInt(SubSeq(v, 15, 16)), ParseInt(SubSeq(v, 18, 19)))

\* datetime.strptime(v, '%Y-%m-%d')
StrptimeWyatt(v) ==
    DateTime(ParseInt(SubSeq(v, 1, 4)), ParseInt(SubSeq(v, 6, 7)),
             ParseInt(SubSeq(v, 9, 10)), 0, 0, 0)

\* {k: dispatch.get(k, lambda v: v)(v) for k, v in m.groupdict().items()}
DispatchToltec(g) ==
    [g EXCEPT !.nwid = ParseInt(@), !.obsid = ParseInt(@), !.subobsid = ParseInt(@),
              !.scanid = ParseInt(@), !.ut = StrptimeToltec(@)]

DispatchWyatt(g) ==
    [g EXCEPT !.obsid = ParseInt(@), !.subobsid = ParseInt(@),
              !.scanid = ParseInt(@), !.ut = StrptimeWyatt(@)]

\* post_toltec: info is a dict, here the function from its keys to their values
PostToltec(i) ==
    LET i1 == IF "kindstr" \notin DOMAIN i
              THEN ("kindstr" :> S_timestream) @@ i
              ELSE i
    IN  IF Lower(i1.fileext) /= S_nc
        THEN [i1 EXCEPT !.kindstr = S_ancillary]
        ELSE i1

\* post_wyatt
PostWyattAsToltec(i) == PostToltec(i)

PostWyatt(i) == i

\* _info_from_filename: the dict of the first pattern that matches, NoneObj when
\* none does, or the ValueError that strptime raised in the dispatch
InfoFromFilename(str) ==
    IF ReToltecFile(str) /= NoneObj
    THEN (IF ~StrptimeToltec(ReToltecFile(str).ut).valid
          THEN Raised("ValueError")
          ELSE PostToltec(DispatchToltec(ReToltecFile(str))))
    ELSE IF ReWyattFile(str) /= NoneObj
    THEN (IF ~StrptimeWyatt(ReWyattFile(str).ut).valid
          THEN Raised("ValueError")
          ELSE PostWyatt(DispatchWyatt(ReWyattFile(str))))
    ELSE NoneObj

\* info_from_filename: path is a record of its directories and its name

\* path.resolve() when resolve is set and path is a symlink
ResolvePath(p, link, res) == IF res /\ link /= NoneObj THEN link ELSE p

\* path.parent.name and path.parent.parent.name: "" above the outermost directory
ParentName(dirs) == IF Len(dirs) >= 1 THEN dirs[Len(dirs)] ELSE <<>>

GrandParentName(dirs) == IF Len(dirs) >= 2 THEN dirs[Len(dirs) - 1] ELSE <<>>

\* the master: the parent's name, or the grandparent's when the parent is
\* named as the interface
RECURSIVE MasterWalkingUp(_, _)
MasterWalkingUp(dirs, interface) ==
    IF dirs /= <<>> /\ ParentName(dirs) = interface
    THEN MasterWalkingUp(SubSeq(dirs, 1, Len(dirs) - 1), interface)
    ELSE ParentName(dirs)

Master(dirs, interface) ==
    IF ParentName(dirs) = interface THEN GrandParentName(dirs) ELSE ParentName(dirs)

\* info_from_filename(path, resolve) for the path p it classifies
InfoFromPath(p) ==
    LET i == InfoFromFilename(p.name) IN
    IF i = NoneObj \/ "raised" \in DOMAIN i
    THEN i
    ELSE ("source" :> p) @@ ("master" :> Master(p.dirs, i.interface)) @@ i

\* -------------------------------------------------- SimulatorRuntime.cli_run

\* A config dict is the set of the key paths that hold a dict (nodes, with <<>>
\* for the dict itself) and the values at the key paths that hold anything else.

Prefixes(q) == {SubSeq(q, 1, n) : n \in 0..(Len(q) - 1)}

IsPrefix(p, q) == Len(p) <= Len(q) /\ SubSeq(q, 1, Len(p)) = p

\* the dict that holds the leaves, and empty dicts at the paths of empties
MkDict(leaves, empties) ==
    [nodes |-> {<<>>} \cup empties \cup UNION {Prefixes(q) : q \in DOMAIN leaves \cup empties},
     leaves |-> leaves]

\* {key: d}
Under(key, d) ==
    [nodes |-> {<<>>} \cup {<<key>> \o q : q \in d.nodes},
     leaves |-> [q \in {<<key>> \o q0 : q0 \in DOMAIN d.leaves} |-> d.leaves[Tail(q)]]]

\* isinstance(d[p], dict), d[p].keys()
IsDict(d, p) == p \in d.nodes

Keys(d, p) ==
    {q[Len(p) + 1] : q \in {x \in d.nodes \cup DOMAIN d.leaves :
                                Len(x) = Len(p) + 1 /\ IsPrefix(p, x)}}

\* rupdate(d, u): the dicts of u are merged into d, anything else replaces
\* what d holds at its key
RUpdate(d, u) ==
    LET kept == {q \in DOMAIN d.leaves :
                    /\ q \notin u.nodes
                    /\ \A x \in DOMAIN u.leaves : ~IsPrefix(x, q)}
        nodes == {n \in d.nodes : \A x \in DOMAIN u.leaves : ~IsPrefix(x, n)}
    IN  [nodes |-> nodes \cup u.nodes,
         leaves |-> [q \in kept \cup DOMAIN u.leaves |->
                        IF q \in DOMAIN u.leaves THEN u.leaves[q] ELSE d.leaves[q]]]

\* self.config: the config files with the override config on top
Config(base, override) == RUpdate(base, override)

\* The schema of SimuConfig, under its config_key: the keys of the dataclasses
\* (of the registry schema of mapping, its dispatcher key)
P_jobkey == <<"simu", "jobkey">>
P_mapping_type == <<"simu", "mapping", "type">>
P_t_exp == <<"simu", "obs_params", "t_exp">>
P_f_smp_probing == <<"simu", "obs_params", "f_smp_probing">>
P_chunk_len == <<"simu", "perf_params", "chunk_len">>
P_plot_only == <<"simu", "plot_only">>

SchemaLeaves == {P_jobkey, P_mapping_type, P_t_exp, P_f_smp_probing, P_chunk_len, P_plot_only}

SchemaNodes == UNION {Prefixes(q) : q \in SchemaLeaves}

\* the dicts whose schema has ignore_extra_keys False
StrictNodes(lenient) ==
    {<<"simu", "obs_params">>, <<"simu", "perf_params">>}
    \cup (IF lenient THEN {} ELSE {<<"simu", "mapping">>})

\* config_cls.from_config raises SchemaError: a dict where the schema has a
\* value, a value where it has a dict, or an extra key in a dict that does not
\* ignore extra keys
SchemaErrors(d, lenient) ==
    \/ \E n \in d.nodes : n \in SchemaLeaves
    \/ \E q \in DOMAIN d.leaves : q \in SchemaNodes
    \/ \E x \in (d.nodes \cup DOMAIN d.leaves) \ (SchemaLeaves \cup SchemaNodes) :
            SubSeq(x, 1, Len(x) - 1) \in StrictNodes(lenient)

\* simu_config.to_config(): the keys of the schema with the validated values;
\* the extra keys that the schema ignored are not in it
ToConfig(d) == MkDict([q \in SchemaLeaves \cap DOMAIN d.leaves |-> d.leaves[q]], {})

\* config_cls.from_config(self.config, ...) after n calls of update: the
\* validated config object, or the SchemaError it raises
FromConfig(d, lenient, n) ==
    IF SchemaErrors(d, lenient) THEN Raised("SchemaError")
    ELSE [cfg |-> ToConfig(d), validated_at |-> n]

\* self.simu_config, a cached_property: the cached object when there is one,
\* or else what the validation gives
SimuConfig(cached, d, lenient, n) ==
    IF cached /= NoneObj THEN cached ELSE FromConfig(d, lenient, n)

\* what is in the cache after the access that gave obj: an exception caches
\* nothing
Cached(obj) == IF "raised" \in DOMAIN obj THEN NoneObj ELSE obj

\* _check_ignored(key_prefix, d, c) for the dicts of d and c at the key path
\* p: the keys it reports in the SimulatorRuntimeError, none when it returns
CheckIgnoredTopLevel(d, c, p) ==
    IF IsDict(d, p) /\ IsDict(c, p)
    THEN {Append(p, k) : k \in Keys(d, p) \ Keys(c, p)}
    ELSE {}

RECURSIVE CheckIgnored(_, _, _)
CheckIgnored(d, c, p) ==
    IF IsDict(d, p) /\ IsDict(c, p)
    THEN IF Keys(d, p) \ Keys(c, p) /= {}
         THEN {Append(p, k) : k \in Keys(d, p) \ Keys(c, p)}
         ELSE UNION {CheckIgnored(d, c, Append(p, k)) : k \in Keys(d, p) \cap Keys(c, p)}
    ELSE {}

\* no call of cli_run
CliIdle ==
    /\ cli_pc = "idle"
    /\ cli_args = NoneObj
    /\ base_config = MkDict(<<>>, {})
    /\ override_config = MkDict(<<>>, {})
    /\ simu_config = NoneObj
    /\ n_update = 0
    /\ accessed = NoneObj
    /\ lenient_mapping = FALSE
    /\ cli_err = "none"

\* ------------------------------------------- the coverage map of the planner

\* np.arange(a, b) of whole numbers
ArangeInt(a, b) == [i \in 1..(b - a) |-> a + i - 1]

\* np.floor and np.ceil of a coordinate of h half pixels
FloorHalf(h) == h \div 2

CeilHalf(h) == (h + 1) \div 2

SeqMin(hs) == CHOOSE m \in {hs[k] : k \in 1..Len(hs)} : \A k \in 1..Len(hs) : m <= hs[k]

SeqMax(hs) == CHOOSE m \in {hs[k] : k \in 1..Len(hs)} : \A k \in 1..Len(hs) : m >= hs[k]

\* xbins, ybins: the edges of the n pixels of an axis
BinEdges(n) == ArangeInt(0, n + 1)

\* det_xbins, det_ybins
DetBinEdges(hs) == ArangeInt(FloorHalf(SeqMin(hs)), CeilHalf(SeqMax(hs)) + 1 + 1)

\* the bin of np.histogram2d that takes the coordinate h: a bin holds its lower
\* edge, the last bin its upper edge too; 0 when h is outside the edges
BinOfHalfOpen(h, bins) ==
    IF h < 2 * bins[1] \/ h >= 2 * bins[Len(bins)] THEN 0
    ELSE CHOOSE i \in 1..(Len(bins) - 1) : 2 * bins[i] <= h /\ h < 2 * bins[i + 1]

BinOf(h, bins) ==
    IF h < 2 * bins[1] \/ h > 2 * bins[Len(bins)] THEN 0
    ELSE IF h = 2 * bins[Len(bins)] THEN Len(bins) - 1
    ELSE CHOOSE i \in 1..(Len(bins) - 1) : 2 * bins[i] <= h /\ h < 2 * bins[i + 1]

\* np.histogram2d(ys, xs, bins=[ybins, xbins])
Histogram2d(ys, xs, ybins, xbins) ==
    [j \in 1..(Len(ybins) - 1) |-> [i \in 1..(Len(xbins) - 1) |->
        Cardinality({k \in 1..Len(xs) : BinOf(ys[k], ybins) = j /\ BinOf(xs[k], xbins) = i})]]

\* im *= f
Scale(im, f) == [j \in 1..Len(im) |-> [i \in 1..Len(im[j]) |-> im[j][i] * f]]

RECURSIVE SumOver(_, _)
SumOver(f, S) ==
    IF S = {} THEN 0
    ELSE LET x == CHOOSE x \in S : TRUE IN f[x] + SumOver(f, S \ {x})

\* im.sum()
ImSum(im) ==
    SumOver([q \in {<<j, i>> : j \in 1..Len(im), i \in 1..Len(im[1])} |-> im[q[1]][q[2]]],
            {<<j, i>> : j \in 1..Len(im), i \in 1..Len(im[1])})

\* convolve_fft(im, ker, normalize_kernel=False): the image of the shape of im,
\* with zero outside im, for a kernel of odd sides
ConvolveFft(im, ker) ==
    LET cy == (Len(ker) + 1) \div 2
        cx == (Len(ker[1]) + 1) \div 2
        taps == {<<a, b>> : a \in 1..Len(ker), b \in 1..Len(ker[1])}
        At(j, i) == IF j \in 1..Len(im) /\ i \in 1..Len(im[1]) THEN im[j][i] ELSE 0
    IN  [j \in 1..Len(im) |-> [i \in 1..Len(im[1]) |->
            SumOver([q \in taps |-> ker[q[1]][q[2]] * At(j - (q[1] - cy), i - (q[2] - cx))],
                    taps)]]

\* Gaussian2DKernel of a beam of 0.5 pixel standard deviation on its 3 by 3
\* array, in units of 1 / BeamNorm
GaussianKernel == <<<<1, 7, 1>>, <<7, 50, 7>>, <<1, 7, 1>>>>

BeamNorm == ImSum(GaussianKernel)

\* pixel values: the number num / den, or its square root
Rat(n, d) == [num |-> n, den |-> d, root |-> FALSE]

Root(n, d) == [num |-> n, den |-> d, root |-> TRUE]

\* sens_coeff = np.sqrt(2.), squared
SensCoeff2 == 2

\* the HDUs: a header and the data
PrimaryHDU == [header |-> [BUNIT |-> "absent"], data |-> <<>>]

ImageHDU(data, bunit) == [header |-> [BUNIT |-> bunit], data |-> data]

\* bs_im of _make_cov_hdu_approx: the boresight histogram in s per pixel
BsIm(xy, shape, dt) ==
    Scale(Histogram2d([k \in 1..Len(xy) |-> xy[k].y], [k \in 1..Len(xy) |-> xy[k].x],
                      BinEdges(shape.ny), BinEdges(shape.nx)), dt)

\* det_im
DetIm(xy) ==
    Histogram2d([k \in 1..Len(xy) |-> xy[k].y], [k \in 1..Len(xy) |-> xy[k].x],
                DetBinEdges([k \in 1..Len(xy) |-> xy[k].y]),
                DetBinEdges([k \in 1..Len(xy) |-> xy[k].x]))

\* _make_cov_hdu_approx: the image HDU of the coverage in s / pix
MakeCovHduApprox(xy, dxy, shape, dt) ==
    LET cov_im == ConvolveFft(ConvolveFft(BsIm(xy, shape, dt), DetIm(dxy)), GaussianKernel)
    IN  ImageHDU([j \in 1..Len(cov_im) |-> [i \in 1..Len(cov_im[j]) |->
                    Rat(cov_im[j][i], BeamNorm)]], "s / pix")

\* cov_data.max(), of values of one denominator
CovMax(data) ==
    CHOOSE m \in {data[j][i].num : j \in 1..Len(data), i \in 1..Len(data[1])} :
        \A j \in 1..Len(data), i \in 1..Len(data[1]) : m >= data[j][i].num

\* m_cov = cov_data > 0.02 * cov_max
MCovNonStrict(data) ==
    [j \in 1..Len(data) |-> [i \in 1..Len(data[j]) |-> 50 * data[j][i].num >= CovMax(data)]]

MCov(data) ==
    [j \in 1..Len(data) |-> [i \in 1..Len(data[j]) |-> 50 * data[j][i].num > CovMax(data)]]

\* sens_coeff * nefd / np.sqrt(c * beam_area_pix2)
DepthValue(c, nefd_, area) == Root(SensCoeff2 * nefd_ * nefd_ * c.den, c.num * area)

\* cov_data_mJy_per_beam: zeros, and the depth where the mask is set
CovDataMJyPerBeam(data, mask, nefd_, area) ==
    [j \in 1..Len(data) |-> [i \in 1..Len(data[j]) |->
        IF mask[j][i] THEN DepthValue(data[j][i], nefd_, area) ELSE Rat(0, 1)]]

\* cov_ctr = cov_hdulist[1].data.copy(); cov_ctr[~m_cov] = 0
CovCtr(data, mask) ==
    [j \in 1..Len(data) |-> [i \in 1..Len(data[j]) |->
        IF mask[j][i] THEN data[j][i] ELSE Rat(0, 1)]]

\* HDUList.copy(): a new list of the same HDU objects
HDUListCopy(hdulist) == hdulist

\* no call of make_traj_data
CovIdle ==
    /\ cov_pc = "idle"
    /\ bs_xy = <<>>
    /\ det_xy = <<>>
    /\ pixel_shape = [nx |-> 1, ny |-> 1]
    /\ dt_smp = 1
    /\ nefd = 1
    /\ beam_area_pix2 = 1
    /\ coverage_map_type = "time"
    /\ hdus = <<>>
    /\ cov_hdulist_s_per_pix = <<>>
    /\ cov_hdulist = <<>>
    /\ bs_im = <<>>
    /\ cov_data = <<>>
    /\ m_cov = <<>>
    /\ cov_data_mJy_per_beam = <<>>
    /\ cov_ctr = <<>>

\* ------------------------------------------------------------- Citlali

\* a version: a release of a number, or the string 'unknown'
Release(n) == [release |-> n, unknown |-> FALSE]

Unknown == [release |-> 0, unknown |-> TRUE]

\* the words of a command line and the parts of a path are sequences of strings
W_citlali == <<"citlali">>
W_version == <<"--version">>

\* the records of the log of events
Ran(cmd) == [kind |-> "run", what |-> cmd, content |-> NoneObj]

RanWithExit(cmd, code) == [kind |-> "run", what |-> cmd, content |-> [exit |-> code]]

Wrote(path, content) == [kind |-> "write", what |-> path, content |-> content]

\* _get_citlali_version(citlali_cmd): the version the executable prints, or
\* the exception of check_output or of the match
GetCitlaliVersion(exe) == IF exe = NoneObj THEN Raised("CalledProcessError") ELSE exe

\* citlali_cmd of _get_citlali_cmd
CitlaliCmd(bp) ==
    IF bp /= NoneObj
    THEN (IF bp.dir THEN bp.path \o W_citlali ELSE bp.path)
    ELSE W_citlali

\* parse_version(version) raises InvalidVersion
ParseVersionRaises(version, legacy) == version.unknown /\ ~legacy

\* parse_version(version) in SpecifierSet(specifiers): a version that is no
\* PEP 440 version satisfies no specifier, and so the empty set of them alone
ContainsAny(version, specifiers) == TRUE

Contains(version, specifiers) ==
    \A sp \in specifiers :
        /\ ~version.unknown
        /\ IF sp.op = ">=" THEN version.release >= sp.v ELSE version.release < sp.v

\* _get_citlali_cmd(binpath, version_specifiers), for what the executable
\* prints: the command, or the exception raised
GetCitlaliCmd(bp, specifiers, exe, legacy) ==
    LET version == IF "raised" \in DOMAIN GetCitlaliVersion(exe)
                   THEN Unknown
                   ELSE GetCitlaliVersion(exe)
    IN  IF specifiers /= NoneObj /\ ParseVersionRaises(version, legacy)
        THEN Raised("InvalidVersion")
        ELSE IF specifiers /= NoneObj /\ ~Contains(version, specifiers.set)
        THEN Raised("RuntimeError")
        ELSE [cmd |-> CitlaliCmd(bp)]

\* tbl.group_by(['obsnum', 'subobsnum', 'scannum', 'master', 'repeat'])
GroupKey(row) == <<row.obsnum, row.subobsnum, row.scannum, row.master, row.repeat>>

\* the order of the masters, as strings
MasterRank(m) == IF m = "ics" THEN 1 ELSE 2

KeyRank(key) == <<key[1], key[2], key[3], MasterRank(key[4]), key[5]>>

RECURSIVE LexLess(_, _)
LexLess(a, b) ==
    IF a = <<>> THEN FALSE
    ELSE Head(a) < Head(b) \/ (Head(a) = Head(b) /\ LexLess(Tail(a), Tail(b)))

\* grouped.groups.keys: the keys of the rows, sorted
RECURSIVE SortKeys(_)
SortKeys(keys) ==
    IF keys = {} THEN <<>>
    ELSE LET k == CHOOSE k \in keys : \A o \in keys \ {k} : LexLess(KeyRank(k), KeyRank(o))
         IN  <<k>> \o SortKeys(keys \ {k})

GroupKeys(tbl) == SortKeys({GroupKey(tbl[i]) : i \in 1..Len(tbl)})

RECURSIVE RowsOf(_, _)
RowsOf(tbl, key) ==
    IF tbl = <<>> THEN <<>>
    ELSE (IF GroupKey(Head(tbl)) = key THEN <<Head(tbl)>> ELSE <<>>) \o RowsOf(Tail(tbl), key)

\* _fix_apt(source): source.replace('.ecsv', '_trimmed.ecsv')
FixApt(source) ==
    [i \in 1..Len(source) |-> IF source[i] = ".ecsv" THEN "_trimmed.ecsv" ELSE source[i]]

\* the list an entry goes to in resolve_input_item
RouteByInterface(entry) ==
    IF entry.interface = "lmt" THEN "data_items"
    ELSE IF entry.interface = "apt" THEN "cal_items"
    ELSE "skipped"

Route(entry) ==
    IF entry.instru = "toltec" THEN "data_items"
    ELSE IF entry.interface = "lmt" THEN "data_items"
    ELSE IF entry.interface = "apt" THEN "cal_items"
    ELSE "skipped"

\* what is appended for an entry
Item(entry) ==
    [filepath |-> IF Route(entry) = "cal_items" THEN FixApt(entry.source) ELSE entry.source,
     meta |-> [interface |-> entry.interface]]

RECURSIVE Items(_, _)
Items(tbl, list) ==
    IF tbl = <<>> THEN <<>>
    ELSE (IF Route(Head(tbl)) = list THEN <<Item(Head(tbl))>> ELSE <<>>)
         \o Items(Tail(tbl), list)

\* resolve_input_item(tbl)
ResolveInputItem(tbl) ==
    [meta |-> [name |-> <<tbl[1].obsnum, tbl[1].subobsnum, tbl[1].scannum>>],
     data_items |-> Items(tbl, "data_items"),
     cal_items |-> Items(tbl, "cal_items")]

\* input_items = [resolve_input_item(d) for d in grouped.groups]
InputItems(tbl) ==
    [g \in 1..Len(GroupKeys(tbl)) |-> ResolveInputItem(RowsOf(tbl, GroupKeys(tbl)[g]))]

\* the files _fix_apt writes while the items are resolved, in order
RECURSIVE FixAptWrites(_)
FixAptWrites(tbl) ==
    IF tbl = <<>> THEN <<>>
    ELSE (IF Route(Head(tbl)) = "cal_items"
          THEN <<Wrote(FixApt(Head(tbl).source), NoneObj)>> ELSE <<>>)
         \o FixAptWrites(Tail(tbl))

RECURSIVE ConcatAll(_)
ConcatAll(seqs) == IF seqs = <<>> THEN <<>> ELSE Head(seqs) \o ConcatAll(Tail(seqs))

\* cfg_filepath = outdir.joinpath('citlali.yaml')
CfgFilepath(dir) == dir \o <<"citlali.yaml">>

\* cmd = [self._binpath, cfg_filepath.as_posix()]
CmdWithOutdir(bin, cfg_filepath) == <<bin, cfg_filepath, <<"out">>>>

Cmd(bin, cfg_filepath) == <<bin, cfg_filepath>>

\* call_subprocess_with_live_output(cmd) raises for an exit code
CallSubprocessRaises(code) == code /= 0

\* no Citlali
RedIdle ==
    /\ red_pc = "idle"
    /\ binpath = NoneObj
    /\ version_specifiers = NoneObj
    /\ exe_version = NoneObj
    /\ legacy_version = FALSE
    /\ engine = NoneObj
    /\ red_err = "none"
    /\ index_table = <<>>
    /\ outdir = <<>>
    /\ cfg = NoneObj
    /\ events = <<>>
    /\ n_proc = 0

\* ------------------------------------------------- cmd_setup (cli/setup.py)
\* A file or directory of the workdir is named by its path below it, a
\* sequence of strings; <<>> is the workdir itself.

\* ctx.setup_file
SetupFile == <<"setup_file">>

\* what a workdir holds once it is set up
DirContents == {<<"cal">>, <<"log">>}

\* RuntimeContext.from_dir(option.workdir, create=True, force, overwrite,
\* dry_run): the context, with the workdir as it leaves it and what it
\* created, or the error for a workdir that is not empty without --force;
\* without --overwrite a file is copied to a backup before it is written over
FromDir(wd, opt) ==
    IF wd.exists /\ wd.files /= {} /\ ~opt.force
    THEN Raised("RuntimeContextError")
    ELSE IF opt.dry_run
    THEN [workdir |-> wd, created |-> {}]
    ELSE LET backups == IF opt.overwrite THEN {}
                        ELSE {f \o <<"bak">> : f \in wd.files \cap DirContents}
         IN  [workdir |-> [wd EXCEPT !.exists = TRUE,
                                     !.files = @ \cup DirContents \cup backups],
              created |-> (IF wd.exists THEN {} ELSE {<<>>}) \cup DirContents \cup backups]

\* the config that is dumped to the setup file: option.config or dict(), with
\* the key setup on top
SetupConfig(opt, jobkey) == [config |-> opt.config, setup |-> [jobkey |-> jobkey]]

\* no call of the setup command
SetupIdle ==
    /\ setup_pc = "idle"
    /\ option = NoneObj
    /\ workdir = NoneObj
    /\ created = {}
    /\ setup_err = "none"

\* ------------------------------------------------------ SimulatorRuntime.run

\* "here we use t_pattern when t_exp is not set"
TExpZeroWhenUnset(obs_t_exp, pattern) ==
    IF obs_t_exp = <<>> THEN 0 ELSE obs_t_exp[1]

TExp(obs_t_exp, pattern) ==
    IF obs_t_exp = <<>> THEN pattern ELSE obs_t_exp[1]

\* np.linspace(0, stop, num): num points from 0 to stop, stop included; point
\* i is points[i] / den ticks
LinspaceNoEndpoint(stop, num) ==
    [points |-> [i \in 1..num |-> (i - 1) * stop], den |-> num]

Linspace(stop, num) ==
    [points |-> [i \in 1..num |-> (i - 1) * stop],
     den |-> IF num > 1 THEN num - 1 ELSE 1]

\* the time-ordered data tod_eval returns for the sample times t
TodEval(t) == [times |-> t]

\* output_ctx.write_sim_data(data): the sink takes the data in call order
WriteSimDataFirst(s, data) == <<data>> \o s

WriteSimData(s, data) == Append(s, data)

\* enumerate(t_chunks): the index after ci
NextChunk(i) == i + 1

\* the config snapshot, the mapping meta and the simulator meta
SetupFiles == {"tolteca.yaml", "mapping_meta", "sim_meta"}

\* what plotter(cfg) returns
PlotResult(plotter) == [plot |-> plotter]

\* results.append(result) for every plotter of the list
PlotResults(plotters) ==
    [i \in 1..Len(plotters) |-> PlotResult(plotters[i])]

\* the default of pre_run_setup_time_grid_size
DefaultGridSize == 100

\* the inputs of the two end-to-end scenarios: 100 s and 101 s at 120 Hz, 10 s chunks
ScenarioInputs ==
    { [t_exp |-> <<s * TicksPerSec>>, t_pattern |-> 60 * TicksPerSec, f_smp |-> 120,
       chunk_len |-> 10 * TicksPerSec, grid_size |-> DefaultGridSize,
       plot_only |-> FALSE, plots |-> <<1, 2>>] :
        s \in {100, 101} }

\* the pattern durations of the mapping models
TPatterns == {0, 7, MaxTExp}

SmallInputs ==
    { [t_exp |-> a, t_pattern |-> p, f_smp |-> b, chunk_len |-> c,
       grid_size |-> DefaultGridSize, plot_only |-> FALSE, plots |-> <<1, 2>>] :
        a \in {<<>>} \cup {<<x>> : x \in 0..MaxTExp}, p \in TPatterns,
        b \in 1..MaxFSmp, c \in 1..MaxChunkLen }

\* runs with a configured size of the pre-run setup time grid
GridInputs ==
    { [t_exp |-> a, t_pattern |-> 7, f_smp |-> 2, chunk_len |-> c,
       grid_size |-> g, plot_only |-> FALSE, plots |-> <<>>] :
        a \in {<<>>, <<0>>, <<9>>}, c \in {1, 3}, g \in 2..MaxGridSize }

\* the lists of plotters of cfg.plots: a plotter is named by a number
PlotLists == {<<>>, <<1>>, <<1, 2>>, <<2, 1>>, <<3, 1, 2>>}

PlotOnlyInputs ==
    { [t_exp |-> a, t_pattern |-> 7, f_smp |-> 2, chunk_len |-> c,
       grid_size |-> DefaultGridSize, plot_only |-> TRUE, plots |-> ps] :
        a \in {<<>>, <<9>>}, c \in {1, 3}, ps \in PlotLists }

Init ==
    /\ \E in \in SmallInputs \cup ScenarioInputs \cup GridInputs \cup PlotOnlyInputs :
        /\ obs_params_t_exp = in.t_exp
        /\ t_pattern = in.t_pattern
        /\ f_smp = in.f_smp
        /\ chunk_len = in.chunk_len
        /\ grid_size = in.grid_size
        /\ plot_only = in.plot_only
        /\ plots = in.plots
    /\ t_exp = 0
    /\ pc = "init"
    /\ t_chunks = <<>>
    /\ ci = 0
    /\ tod = NoneObj
    /\ evaluated = <<>>
    /\ sink = <<>>
    /\ output_dir = FALSE
    /\ output_files = {}
    /\ err = "none"
    /\ log_file = FALSE
    /\ tod_evaluators = <<>>
    /\ plotted = <<>>
    /\ results = <<>>
    /\ filename = <<>>
    /\ fs_pc = "idle"
    /\ info = NoneObj
    /\ path_dirs = <<>>
    /\ link_target = NoneObj
    /\ resolve = FALSE
    /\ CliIdle
    /\ CovIdle
    /\ RedIdle
    /\ SetupIdle

\* run with plot_only set: every plotter of cfg.plots is called, and run
\* returns the list of their results
RunPlotOnly ==
    /\ pc = "init"
    /\ plot_only
    /\ plotted' = plots
    /\ results' = PlotResults(plots)
    /\ pc' = "plotted"
    /\ UNCHANGED <<cfgVars, t_exp, t_chunks, ci, tod, evaluated, sink, output_dir,
                   output_files, err, log_file, tod_evaluators>>

\* run with plot_only set, the k-th plotter raises: nothing in run catches it
RunPlotOnlyFails ==
    /\ pc = "init"
    /\ plot_only
    /\ \E k \in 1..Len(plots) : plotted' = SubSeq(plots, 1, k)
    /\ pc' = "error"
    /\ err' = "PlotError"
    /\ UNCHANGED <<cfgVars, t_exp, t_chunks, ci, tod, evaluated, sink, output_dir,
                   output_files, log_file, tod_evaluators, results>>

\* run without plot_only, up to the return of _make_time_chunks: the exposure
\* time and the plan of the chunks
PlanChunksAlways ==
    /\ pc = "init"
    /\ t_exp' = TExp(obs_params_t_exp, t_pattern)
    /\ IF MakeTimeChunksRaises(t_exp', f_smp, chunk_len)
       THEN /\ pc' = "error"
            /\ err' = "ZeroDivisionError"
            /\ UNCHANGED t_chunks
       ELSE /\ t_chunks' = MakeTimeChunks(t_exp', f_smp, chunk_len)
            /\ pc' = "planned"
            /\ err' = "none"
    /\ UNCHANGED <<cfgVars, ci, tod, evaluated, sink, output_dir, output_files,
                   log_file, tod_evaluators, plotted, results>>

PlanChunks ==
    /\ pc = "init"
    /\ ~plot_only
    /\ t_exp' = TExp(obs_params_t_exp, t_pattern)
    /\ IF MakeTimeChunksRaises(t_exp', f_smp, chunk_len)
       THEN /\ pc' = "error"
            /\ err' = "ZeroDivisionError"
            /\ UNCHANGED t_chunks
       ELSE /\ t_chunks' = MakeTimeChunks(t_exp', f_smp, chunk_len)
            /\ pc' = "planned"
            /\ err' = "none"
    /\ UNCHANGED <<cfgVars, ci, tod, evaluated, sink, output_dir, output_files,
                   log_file, tod_evaluators, plotted, results>>

\* run from there up to the loop: create the output directory, set up the log
\* file, write the config snapshot and the metadata, and make the evaluator
\* with the pre-run setup time grid
RunSetup ==
    /\ pc = "planned"
    /\ output_dir' = TRUE
    /\ log_file' = TRUE
    /\ output_files' = SetupFiles
    /\ tod_evaluators' = Append(tod_evaluators, Linspace(t_exp, grid_size))
    /\ pc' = IF Len(t_chunks) > 0 THEN "eval" ELSE "done"
    /\ UNCHANGED <<cfgVars, t_exp, t_chunks, ci, tod, evaluated, sink, err,
                   plotted, results>>

\* tod_eval(t) returns
EvaluateWithSetup ==
    /\ pc = "eval"
    /\ tod_evaluators' = Append(tod_evaluators, Linspace(t_exp, grid_size))
    /\ tod' = TodEval(t_chunks[ci + 1])
    /\ evaluated' = Append(evaluated, ci)
    /\ pc' = "write"
    /\ UNCHANGED <<cfgVars, t_exp, t_chunks, ci, sink, output_dir, output_files,
                   err, log_file, plotted, results>>

Evaluate ==
    /\ pc = "eval"
    /\ tod' = TodEval(t_chunks[ci + 1])
    /\ evaluated' = Append(evaluated, ci)
    /\ pc' = "write"
    /\ UNCHANGED <<cfgVars, t_exp, t_chunks, ci, sink, output_dir, output_files,
                   err, log_file, tod_evaluators, plotted, results>>

\* tod_eval(t) raises: nothing in run catches it
EvaluateFailsSwallowed ==
    /\ pc = "eval"
    /\ evaluated' = Append(evaluated, ci)
    /\ err' = "EvalError"
    /\ ci' = NextChunk(ci)
    /\ pc' = IF ci' < Len(t_chunks) THEN "eval" ELSE "done"
    /\ UNCHANGED <<cfgVars, t_exp, t_chunks, tod, sink, output_dir, output_files,
                   log_file, tod_evaluators, plotted, results>>

EvaluateFails ==
    /\ pc = "eval"
    /\ evaluated' = Append(evaluated, ci)
    /\ pc' = "error"
    /\ err' = "EvalError"
    /\ UNCHANGED <<cfgVars, t_exp, t_chunks, ci, tod, sink, output_dir,
                   output_files, log_file, tod_evaluators, plotted, results>>

\* output_ctx.write_sim_data(...) and the step of the loop
Write ==
    /\ pc = "write"
    /\ sink' = WriteSimData(sink, tod)
    /\ tod' = NoneObj
    /\ ci' = NextChunk(ci)
    /\ pc' = IF ci' < Len(t_chunks) THEN "eval" ELSE "done"
    /\ UNCHANGED <<cfgVars, t_exp, t_chunks, evaluated, output_dir, output_files,
                   err, log_file, tod_evaluators, plotted, results>>

Next ==
    \/ RunPlotOnly /\ UNCHANGED <<fsVars, cliVars, covVars, redVars, setupVars>>
    \/ RunPlotOnlyFails /\ UNCHANGED <<fsVars, cliVars, covVars, redVars, setupVars>>
    \/ PlanChunks /\ UNCHANGED <<fsVars, cliVars, covVars, redVars, setupVars>>
    \/ RunSetup /\ UNCHANGED <<fsVars, cliVars, covVars, redVars, setupVars>>
    \/ Evaluate /\ UNCHANGED <<fsVars, cliVars, covVars, redVars, setupVars>>
    \/ EvaluateFails /\ UNCHANGED <<fsVars, cliVars, covVars, redVars, setupVars>>
    \/ Write /\ UNCHANGED <<fsVars, cliVars, covVars, redVars, setupVars>>

Spec == Init /\ [][Next]_vars

\* ------------------------------------------------------- calls of cli_run

\* the config files: every key of the schema, times in ticks; one of them
\* leaves t_exp out
BaseConfigs ==
    { MkDict((P_jobkey :> 1) @@ (P_mapping_type :> 1) @@ (P_t_exp :> in.t_exp)
             @@ (P_f_smp_probing :> in.f_smp) @@ (P_chunk_len :> in.chunk_len)
             @@ (P_plot_only :> 0), {}) :
        in \in {[t_exp |-> 8, f_smp |-> 1, chunk_len |-> 4],
                 [t_exp |-> 5, f_smp |-> 2, chunk_len |-> 2]} }
    \cup
    { MkDict((P_jobkey :> 1) @@ (P_mapping_type :> 1) @@ (P_f_smp_probing :> 1)
             @@ (P_chunk_len :> 4) @@ (P_plot_only :> 0), {}) }

\* obs_params.t_exp and plot_only of the validated config c
ObsParamsTExp(c) == IF P_t_exp \in DOMAIN c.leaves THEN <<c.leaves[P_t_exp]>> ELSE <<>>

PlotOnly(c) == c.leaves[P_plot_only] = 1

\* the config of the command line arguments (under the key simu): none, keys
\* of the schema, and keys the schema does not have at each depth
CliConfigs ==
    { MkDict(<<>>, {}),
      MkDict(<<>>, {<<"perf_params">>}),
      MkDict(<<"obs_params", "t_exp">> :> 6, {}),
      MkDict(<<"perf_params", "chunk_len">> :> 1, {}),
      MkDict((<<"obs_params", "t_exp">> :> 3) @@ (<<"plot_only">> :> 1), {}),
      MkDict(<<"bogus">> :> 1, {}),
      MkDict(<<"bogus", "key">> :> 1, {}),
      MkDict(<<"obs_params", "bogus">> :> 1, {}),
      MkDict(<<"mapping", "bogus">> :> 1, {}),
      MkDict(<<"mapping", "bogus", "key">> :> 1, {}),
      MkDict(<<"jobkey", "bogus">> :> 1, {}),
      MkDict((<<"obs_params", "t_exp">> :> 6) @@ (<<"mapping", "bogus">> :> 1), {}) }

SimIdle ==
    /\ obs_params_t_exp = <<>>
    /\ t_pattern = 0
    /\ plot_only = FALSE
    /\ plots = <<>>
    /\ grid_size = DefaultGridSize
    /\ t_exp = 0
    /\ f_smp = 1
    /\ chunk_len = 1
    /\ pc = "idle"
    /\ t_chunks = <<>>
    /\ ci = 0
    /\ tod = NoneObj
    /\ evaluated = <<>>
    /\ sink = <<>>
    /\ output_dir = FALSE
    /\ output_files = {}
    /\ err = "none"
    /\ log_file = FALSE
    /\ tod_evaluators = <<>>
    /\ plotted = <<>>
    /\ results = <<>>

FsIdle ==
    /\ filename = <<>>
    /\ fs_pc = "idle"
    /\ info = NoneObj
    /\ path_dirs = <<>>
    /\ link_target = NoneObj
    /\ resolve = FALSE

InitCli ==
    /\ base_config \in BaseConfigs
    /\ cli_args \in {NoneObj} \cup {[cfg |-> c] : c \in CliConfigs}
    /\ lenient_mapping \in BOOLEAN
    /\ override_config = MkDict(<<>>, {})
    /\ simu_config \in {NoneObj, FromConfig(base_config, lenient_mapping, 0)}
    /\ n_update = 0
    /\ accessed = NoneObj
    /\ cli_pc = "call"
    /\ cli_err = "none"
    /\ obs_params_t_exp = ObsParamsTExp(base_config)
    /\ f_smp = base_config.leaves[P_f_smp_probing]
    /\ chunk_len = base_config.leaves[P_chunk_len]
    /\ plot_only = PlotOnly(base_config)
    /\ plots \in {<<>>, <<2, 1>>}
    /\ t_pattern = 7
    /\ grid_size = DefaultGridSize
    /\ t_exp = 0
    /\ pc = "idle"
    /\ t_chunks = <<>>
    /\ ci = 0
    /\ tod = NoneObj
    /\ evaluated = <<>>
    /\ sink = <<>>
    /\ output_dir = FALSE
    /\ output_files = {}
    /\ err = "none"
    /\ log_file = FALSE
    /\ tod_evaluators = <<>>
    /\ plotted = <<>>
    /\ results = <<>>
    /\ FsIdle
    /\ CovIdle
    /\ RedIdle
    /\ SetupIdle

\* cli_run(args) up to its call of run: the update of the override config,
\* which drops the cached simu_config, the validation and the check of the
\* ignored keys; with args None, run reads simu_config, cached or not
CliRunRollsBack ==
    /\ cli_pc = "call"
    /\ LET updated == cli_args /= NoneObj
           cli_cfg == IF updated THEN Under("simu", cli_args.cfg) ELSE MkDict(<<>>, {})
           override == IF updated THEN RUpdate(override_config, cli_cfg)
                       ELSE override_config
           n == IF updated THEN n_update + 1 ELSE n_update
           obj == SimuConfig(IF updated THEN NoneObj ELSE simu_config,
                             Config(base_config, override), lenient_mapping, n)
           invalid == "raised" \in DOMAIN obj
           ignored == IF ~updated \/ invalid THEN {}
                      ELSE CheckIgnored(cli_cfg, obj.cfg, <<>>)
       IN  /\ override_config' = IF invalid \/ ignored /= {} THEN override_config
                                ELSE override
           /\ n_update' = n
           /\ simu_config' = Cached(obj)
           /\ accessed' = [obj |-> obj, at |-> n]
           /\ IF invalid \/ ignored /= {}
              THEN /\ cli_pc' = "raised"
                   /\ cli_err' = IF invalid THEN "SchemaError" ELSE "SimulatorRuntimeError"
                   /\ UNCHANGED <<obs_params_t_exp, f_smp, chunk_len, plot_only, pc>>
              ELSE /\ cli_pc' = "run"
                   /\ cli_err' = "none"
                   /\ obs_params_t_exp' = ObsParamsTExp(obj.cfg)
                   /\ f_smp' = obj.cfg.leaves[P_f_smp_probing]
                   /\ chunk_len' = obj.cfg.leaves[P_chunk_len]
                   /\ plot_only' = PlotOnly(obj.cfg)
                   /\ pc' = "init"
    /\ UNCHANGED <<cli_args, base_config, lenient_mapping, t_pattern, plots,
                   grid_size, t_exp, t_chunks, ci, tod, evaluated, sink,
                   output_dir, output_files, err, log_file, tod_evaluators,
                   plotted, results>>

CliRun ==
    /\ cli_pc = "call"
    /\ LET updated == cli_args /= NoneObj
           cli_cfg == IF updated THEN Under("simu", cli_args.cfg) ELSE MkDict(<<>>, {})
           override == IF updated THEN RUpdate(override_config, cli_cfg)
                       ELSE override_config
           n == IF updated THEN n_update + 1 ELSE n_update
           obj == SimuConfig(IF updated THEN NoneObj ELSE simu_config,
                             Config(base_config, override), lenient_mapping, n)
           invalid == "raised" \in DOMAIN obj
           ignored == IF ~updated \/ invalid THEN {}
                      ELSE CheckIgnored(cli_cfg, obj.cfg, <<>>)
       IN  /\ override_config' = override
           /\ n_update' = n
           /\ simu_config' = Cached(obj)
           /\ accessed' = [obj |-> obj, at |-> n]
           /\ IF invalid \/ ignored /= {}
              THEN /\ cli_pc' = "raised"
                   /\ cli_err' = IF invalid THEN "SchemaError" ELSE "SimulatorRuntimeError"
                   /\ UNCHANGED <<obs_params_t_exp, f_smp, chunk_len, plot_only, pc>>
              ELSE /\ cli_pc' = "run"
                   /\ cli_err' = "none"
                   /\ obs_params_t_exp' = ObsParamsTExp(obj.cfg)
                   /\ f_smp' = obj.cfg.leaves[P_f_smp_probing]
                   /\ chunk_len' = obj.cfg.leaves[P_chunk_len]
                   /\ plot_only' = PlotOnly(obj.cfg)
                   /\ pc' = "init"
    /\ UNCHANGED <<cli_args, base_config, lenient_mapping, t_pattern, plots,
                   grid_size, t_exp, t_chunks, ci, tod, evaluated, sink,
                   output_dir, output_files, err, log_file, tod_evaluators,
                   plotted, results>>

NextCli ==
    \/ CliRun /\ UNCHANGED <<fsVars, covVars, redVars, setupVars>>
    \/ RunPlotOnly /\ UNCHANGED <<fsVars, cliVars, covVars, redVars, setupVars>>
    \/ RunPlotOnlyFails /\ UNCHANGED <<fsVars, cliVars, covVars, redVars, setupVars>>
    \/ PlanChunks /\ UNCHANGED <<fsVars, cliVars, covVars, redVars, setupVars>>
    \/ RunSetup /\ UNCHANGED <<fsVars, cliVars, covVars, redVars, setupVars>>
    \/ Evaluate /\ UNCHANGED <<fsVars, cliVars, covVars, redVars, setupVars>>
    \/ EvaluateFails /\ UNCHANGED <<fsVars, cliVars, covVars, redVars, setupVars>>
    \/ Write /\ UNCHANGED <<fsVars, cliVars, covVars, redVars, setupVars>>

SpecCli == InitCli /\ [][NextCli]_vars

\* --------------------------------------- calls of update and of simu_config

\* the configs that update is called with
UpdateConfigs == {Under("simu", c) : c \in CliConfigs}

InitRt ==
    /\ base_config \in BaseConfigs
    /\ lenient_mapping \in BOOLEAN
    /\ override_config = MkDict(<<>>, {})
    /\ simu_config = NoneObj
    /\ n_update = 0
    /\ accessed = NoneObj
    /\ cli_pc = "idle"
    /\ cli_args = NoneObj
    /\ cli_err = "none"
    /\ SimIdle
    /\ FsIdle
    /\ CovIdle
    /\ RedIdle
    /\ SetupIdle

\* update(config)
UpdateKeepsCache(config) ==
    /\ n_update < MaxUpdates
    /\ override_config' = RUpdate(override_config, config)
    /\ n_update' = n_update + 1
    /\ UNCHANGED <<simu_config, accessed, cli_pc, cli_args, base_config, lenient_mapping, cli_err>>

Update(config) ==
    /\ n_update < MaxUpdates
    /\ override_config' = RUpdate(override_config, config)
    /\ simu_config' = NoneObj
    /\ n_update' = n_update + 1
    /\ UNCHANGED <<accessed, cli_pc, cli_args, base_config, lenient_mapping, cli_err>>

\* an access of the property simu_config
Access ==
    /\ accessed' = [obj |-> SimuConfig(simu_config, Config(base_config, override_config),
                                  lenient_mapping, n_update),
               at |-> n_update]
    /\ simu_config' = Cached(accessed'.obj)
    /\ UNCHANGED <<n_update, override_config, cli_pc, cli_args, base_config,
                   lenient_mapping, cli_err>>

NextRt ==
    \/ (\E c \in UpdateConfigs : Update(c)) /\ UNCHANGED <<simVars, fsVars, covVars, redVars, setupVars>>
    \/ Access /\ UNCHANGED <<simVars, fsVars, covVars, redVars, setupVars>>

SpecRt == InitRt /\ [][NextRt]_vars

\* ------------------------------------------------ calls of make_traj_data

\* the pixel grids and, for each, where the boresight samples may fall: inside
\* a pixel, on an edge between pixels, on the last edge of the grid
CovScenes ==
    { [shape |-> [nx |-> 3, ny |-> 2],
       pos |-> {[x |-> hx, y |-> hy] : hx \in {0, 1, 6}, hy \in {1, 4}}],
      [shape |-> [nx |-> 2, ny |-> 1],
       pos |-> {[x |-> 1, y |-> 1], [x |-> 3, y |-> 1], [x |-> 4, y |-> 2]}] }

\* the detectors: one, or three in a row one pixel apart
DetLayouts ==
    { <<[x |-> 10, y |-> 10]>>,
      <<[x |-> 8, y |-> 10], [x |-> 10, y |-> 10], [x |-> 12, y |-> 10]>> }

InitCov ==
    /\ \E scene \in CovScenes :
        /\ pixel_shape = scene.shape
        /\ \E n \in 2..MaxSamples : bs_xy \in [1..n -> scene.pos]
    /\ det_xy \in DetLayouts
    /\ dt_smp \in {1, 2}
    /\ nefd = 3
    /\ beam_area_pix2 = 2
    /\ coverage_map_type \in {"time", "depth"}
    /\ cov_pc = "call"
    /\ hdus = <<>>
    /\ cov_hdulist_s_per_pix = <<>>
    /\ cov_hdulist = <<>>
    /\ bs_im = <<>>
    /\ cov_data = <<>>
    /\ m_cov = <<>>
    /\ cov_data_mJy_per_beam = <<>>
    /\ cov_ctr = <<>>
    /\ SimIdle
    /\ FsIdle
    /\ CliIdle
    /\ RedIdle
    /\ SetupIdle

\* cov_hdulist_s_per_pix = cls._make_cov_hdulist(ctx=locals())
MakeCovHdulist ==
    /\ cov_pc = "call"
    /\ bs_im' = BsIm(bs_xy, pixel_shape, dt_smp)
    /\ hdus' = <<PrimaryHDU, MakeCovHduApprox(bs_xy, det_xy, pixel_shape, dt_smp)>>
    /\ cov_hdulist_s_per_pix' = <<1, 2>>
    /\ cov_pc' = "cov_made"
    /\ UNCHANGED <<bs_xy, det_xy, pixel_shape, dt_smp, nefd, beam_area_pix2,
                   coverage_map_type, cov_hdulist, cov_data, m_cov,
                   cov_data_mJy_per_beam, cov_ctr>>

\* make_traj_data from the mask to the choice of cov_hdulist and to the image
\* that the contours of the outline are taken from
ConvertCoverage ==
    /\ cov_pc = "cov_made"
    /\ cov_data' = hdus[cov_hdulist_s_per_pix[2]].data
    /\ m_cov' = MCov(cov_data')
    /\ cov_data_mJy_per_beam' = CovDataMJyPerBeam(cov_data', m_cov', nefd, beam_area_pix2)
    /\ IF coverage_map_type = "depth"
       THEN /\ cov_hdulist' = HDUListCopy(cov_hdulist_s_per_pix)
            /\ hdus' = [hdus EXCEPT ![cov_hdulist'[2]] =
                            ImageHDU(cov_data_mJy_per_beam', "mJy / beam")]
       ELSE /\ cov_hdulist' = cov_hdulist_s_per_pix
            /\ UNCHANGED hdus
    /\ cov_ctr' = CovCtr(hdus'[cov_hdulist'[2]].data, m_cov')
    /\ cov_pc' = "done"
    /\ UNCHANGED <<bs_xy, det_xy, pixel_shape, dt_smp, nefd, beam_area_pix2,
                   coverage_map_type, cov_hdulist_s_per_pix, bs_im>>

NextCov ==
    \/ MakeCovHdulist /\ UNCHANGED <<simVars, fsVars, cliVars, redVars, setupVars>>
    \/ ConvertCoverage /\ UNCHANGED <<simVars, fsVars, cliVars, redVars, setupVars>>

SpecCov == InitCov /\ [][NextCov]_vars

\* ------------------------------------------ Citlali and the calls of proc

Row(obsnum, master, instru, interface, source) ==
    [obsnum |-> obsnum, subobsnum |-> 0, scannum |-> 0, master |-> master, repeat |-> 1,
     instru |-> instru, interface |-> interface, source |-> source]

\* the file records the index tables are made of: two observations, two
\* masters, and each of the interfaces the routing tells apart
RowPool ==
    << Row(1, "tcs", "toltec", "toltec0", <<"toltec0_1", ".nc">>),
       Row(1, "tcs", "lmt", "lmt", <<"tel_1", ".nc">>),
       Row(1, "tcs", "apt", "apt", <<"apt_1", ".ecsv">>),
       Row(1, "tcs", "hwp", "hwp", <<"hwp_1", ".nc">>),
       Row(2, "tcs", "toltec", "toltec1", <<"toltec1_2", ".nc">>),
       Row(1, "ics", "toltec", "toltec0", <<"ics_toltec0_1", ".nc">>),
       Row(2, "tcs", "toltec", "apt", <<"toltec_apt_2", ".ecsv">>) >>

\* the rows of the pool at the indices of S, in the order of the pool
RECURSIVE RowsAt(_, _)
RowsAt(S, i) ==
    IF i > Len(RowPool) THEN <<>>
    ELSE (IF i \in S THEN <<RowPool[i]>> ELSE <<>>) \o RowsAt(S, i + 1)

Tables == {RowsAt(S, 1) : S \in {T \in SUBSET (1..Len(RowPool)) : Cardinality(T) <= MaxRows}}

\* version_specifiers: none, '', '>=2', '<2'
SpecifierSets ==
    {NoneObj, [set |-> {}], [set |-> {[op |-> ">=", v |-> 2]}], [set |-> {[op |-> "<", v |-> 2]}]}

InitRed ==
    /\ red_pc = "construct"
    /\ binpath \in {NoneObj, [dir |-> TRUE, path |-> <<"bin">>]}
    /\ version_specifiers \in SpecifierSets
    /\ exe_version \in {NoneObj, Release(1), Release(2)}
    /\ legacy_version \in BOOLEAN
    /\ engine = NoneObj
    /\ red_err = "none"
    /\ index_table \in Tables
    /\ outdir = <<"out">>
    /\ cfg = [inputs |-> <<>>, runtime |-> [output_filepath |-> <<>>]]
    /\ events = <<>>
    /\ n_proc = 0
    /\ SimIdle
    /\ FsIdle
    /\ CliIdle
    /\ CovIdle
    /\ SetupIdle

\* Citlali(binpath, version_specifiers)
Construct ==
    /\ red_pc = "construct"
    /\ LET got == GetCitlaliCmd(binpath, version_specifiers, exe_version, legacy_version)
           probe == Ran(<<CitlaliCmd(binpath), W_version>>)
       IN  IF "raised" \in DOMAIN got
           THEN /\ events' = Append(events, probe)
                /\ red_err' = got.raised
                /\ red_pc' = "construct_raised"
                /\ UNCHANGED engine
           ELSE /\ events' = events \o <<probe, probe>>
                /\ IF "raised" \in DOMAIN GetCitlaliVersion(exe_version)
                   THEN /\ red_err' = GetCitlaliVersion(exe_version).raised
                        /\ red_pc' = "construct_raised"
                        /\ UNCHANGED engine
                   ELSE /\ engine' = [binpath |-> got.cmd,
                                       version |-> GetCitlaliVersion(exe_version)]
                        /\ red_pc' = "constructed"
                        /\ UNCHANGED red_err
    /\ UNCHANGED <<binpath, version_specifiers, exe_version, legacy_version,
                   index_table, outdir, cfg, n_proc>>

\* proc(dataset, outdir) up to the end of the with block that writes citlali.yaml
ProcWrite ==
    /\ red_pc \in {"constructed", "proc_returned", "proc_raised"}
    /\ n_proc < MaxProcCalls
    /\ n_proc' = n_proc + 1
    /\ cfg' = [cfg EXCEPT !.inputs = InputItems(index_table),
                          !.runtime.output_filepath = outdir \o <<"/">>]
    /\ events' = events
                  \o ConcatAll([g \in 1..Len(GroupKeys(index_table)) |->
                        FixAptWrites(RowsOf(index_table, GroupKeys(index_table)[g]))])
                  \o <<Wrote(CfgFilepath(outdir), cfg')>>
    /\ red_pc' = "proc_written"
    /\ red_err' = "none"
    /\ UNCHANGED <<binpath, version_specifiers, exe_version, legacy_version, engine,
                   index_table, outdir>>

\* the rest of proc: the executable is run and exits with a code
ProcLaunch ==
    /\ red_pc = "proc_written"
    /\ \E code \in {0, 1} :
        /\ events' = Append(events, RanWithExit(Cmd(engine.binpath, CfgFilepath(outdir)), code))
        /\ IF CallSubprocessRaises(code)
           THEN red_pc' = "proc_raised" /\ red_err' = "CalledProcessError"
           ELSE red_pc' = "proc_returned" /\ red_err' = "none"
    /\ UNCHANGED <<binpath, version_specifiers, exe_version, legacy_version, engine,
                   index_table, outdir, cfg, n_proc>>

NextRed ==
    \/ Construct /\ UNCHANGED <<simVars, fsVars, cliVars, covVars, setupVars>>
    \/ ProcWrite /\ UNCHANGED <<simVars, fsVars, cliVars, covVars, setupVars>>
    \/ ProcLaunch /\ UNCHANGED <<simVars, fsVars, cliVars, covVars, setupVars>>

SpecRed == InitRed /\ [][NextRed]_vars

\* ---------------------------------------------- calls of _info_from_filename

U == <<"_">>
Dot == <<".">>

\* the parts the file names are built from; some make names no pattern matches
NwIds == {<<"0">>, <<"1", "2">>, <<>>}
ObsIds == {<<"1">>, <<"0", "0", "7">>}
ToltecUts == {<<"2", "0", "2", "0", "_", "0", "2", "_", "2", "9", "_", "2", "3", "_", "5", "9", "_", "5", "9">>, <<"2", "0", "2", "1", "_", "0", "2", "_", "2", "9", "_", "0", "0", "_", "0", "0", "_", "0", "0">>, <<"2", "0", "2", "1", "_", "1", "3", "_", "0", "1", "_", "0", "0", "_", "0", "0", "_", "0", "0">>, <<"2", "0", "2", "1", "_", "1", "_", "0", "1", "_", "0", "0", "_", "0", "0", "_", "0", "0">>}
WyattUts == {<<"2", "0", "2", "0", "-", "0", "1", "-", "0", "2">>, <<"2", "0", "2", "0", "-", "0", "0", "-", "0", "2">>}
KindParts == {<<>>, <<"_", "t", "u", "n", "e">>, <<"_">>}
FileExts == {<<"n", "c">>, <<"N", "C">>, <<"n", "C">>, <<"t", "x", "t">>, <<"t", "a", "r", ".", "n", "c">>, <<>>}

ToltecNames ==
    { S_toltec \o nw \o U \o ob \o U \o <<"0">> \o U \o <<"3">> \o U \o ut \o k \o Dot \o ext :
        nw \in NwIds, ob \in ObsIds, ut \in ToltecUts, k \in KindParts, ext \in FileExts }

WyattNames ==
    { S_wyatt \o U \o ut \o U \o ob \o U \o <<"0">> \o U \o <<"3">> \o k \o Dot \o ext :
        ob \in ObsIds, ut \in WyattUts, k \in KindParts, ext \in FileExts }

OtherNames == {<<"r", "e", "a", "d", "m", "e", ".", "t", "x", "t">>, <<"t", "o", "l", "t", "e", "c", ".", "n", "c">>, <<"w", "y", "a", "t", "t">>}

FileNames == ToltecNames \cup WyattNames \cup OtherNames

\* the directories of the paths: under a directory named as the interface,
\* under two of them, under none
D_data == <<"d", "a", "t", "a">>
D_toltec0 == <<"t", "o", "l", "t", "e", "c", "0">>
D_wyatt == <<"w", "y", "a", "t", "t">>

DirLists ==
    {<<>>, <<D_data>>, <<D_toltec0>>, <<D_data, D_toltec0>>, <<D_toltec0, D_toltec0>>,
     <<D_data, D_wyatt>>}

\* what a symlink points to: a TolTEC file, a file no pattern matches
LinkTargets ==
    {[dirs |-> <<D_data, D_toltec0>>,
      name |-> <<"t", "o", "l", "t", "e", "c", "0", "_", "1", "_", "0", "_", "3", "_", "2", "0", "2", "0", "_", "0", "2", "_", "2", "9", "_", "2", "3", "_", "5", "9", "_", "5", "9", ".", "n", "c">>],
     [dirs |-> <<D_data>>,
      name |-> <<"r", "e", "a", "d", "m", "e", ".", "t", "x", "t">>]}

InitFs ==
    /\ filename \in FileNames
    /\ path_dirs \in DirLists
    /\ link_target \in {NoneObj} \cup LinkTargets
    /\ resolve \in BOOLEAN
    /\ fs_pc = "call"
    /\ info = NoneObj
    /\ SimIdle
    /\ CliIdle
    /\ CovIdle
    /\ RedIdle
    /\ SetupIdle

\* a call of ToltecDataFileSpec._info_from_filename(filename)
InfoFromFilenameCall ==
    /\ fs_pc = "call"
    /\ info' = InfoFromFilename(filename)
    /\ fs_pc' = IF "raised" \in DOMAIN info' THEN "raised" ELSE "returned"
    /\ UNCHANGED <<filename, path_dirs, link_target, resolve>>

\* the path that a call of info_from_filename classifies
Path == [dirs |-> path_dirs, name |-> filename]

\* a call of ToltecDataFileSpec.info_from_filename(path, resolve)
InfoFromPathCall ==
    /\ fs_pc = "call"
    /\ info' = InfoFromPath(ResolvePath(Path, link_target, resolve))
    /\ fs_pc' = IF "raised" \in DOMAIN info' THEN "path_raised" ELSE "path_returned"
    /\ UNCHANGED <<filename, path_dirs, link_target, resolve>>

NextFs ==
    \/ InfoFromFilenameCall /\ UNCHANGED <<simVars, cliVars, covVars, redVars, setupVars>>
    \/ InfoFromPathCall /\ UNCHANGED <<simVars, cliVars, covVars, redVars, setupVars>>

SpecFs == InitFs /\ [][NextFs]_vars

\* ------------------------------------------------ calls of the setup command

\* the workdir before the command: missing, empty, or with files in it
Workdirs ==
    {[exists |-> FALSE, files |-> {}, setup |-> NoneObj]}
    \cup {[exists |-> TRUE, files |-> fs, setup |-> NoneObj] :
            fs \in {{}, {<<"cal">>}, {<<"notes">>}, {<<"cal">>, <<"notes">>}}}

InitSetup ==
    /\ setup_pc = "call"
    /\ option \in [force : BOOLEAN, overwrite : BOOLEAN, dry_run : BOOLEAN,
                   config : {"none", "user"}]
    /\ workdir \in Workdirs
    /\ created = {}
    /\ setup_err = "none"
    /\ SimIdle
    /\ FsIdle
    /\ CliIdle
    /\ CovIdle
    /\ RedIdle

\* the action of the setup command: the context from the workdir, then the
\* setup file is opened for writing and the config dumped to it
CmdSetup ==
    /\ setup_pc = "call"
    /\ LET ctx == FromDir(workdir, option) IN
       IF "raised" \in DOMAIN ctx
       THEN /\ setup_pc' = "raised"
            /\ setup_err' = ctx.raised
            /\ UNCHANGED <<workdir, created>>
       ELSE IF ~ctx.workdir.exists
       THEN /\ setup_pc' = "raised"
            /\ setup_err' = "FileNotFoundError"
            /\ workdir' = ctx.workdir
            /\ created' = ctx.created
       ELSE /\ setup_pc' = "done"
            /\ setup_err' = "none"
            /\ workdir' = [ctx.workdir EXCEPT !.files = @ \cup {SetupFile},
                                              !.setup = SetupConfig(option, "workdir")]
            /\ created' = ctx.created \cup {SetupFile}
    /\ UNCHANGED option

NextSetup ==
    \/ CmdSetup /\ UNCHANGED <<simVars, fsVars, cliVars, covVars, redVars>>

SpecSetup == InitSetup /\ [][NextSetup]_vars

\* ------------------------------------------------------------------ claims

RECURSIVE Flatten(_)
Flatten(chunks) ==
    IF chunks = <<>> THEN <<>> ELSE Head(chunks) \o Flatten(Tail(chunks))

\* _make_time_chunks was called and returned
PlannerReturned == pc \notin {"init", "plotted"} /\ err \notin {"ZeroDivisionError", "PlotError"}

\* the chunks before the merge step, for the state's inputs
Naive == NaiveChunks(Arange(t_exp, f_smp), NTimesPerChunk(chunk_len, f_smp))

IsScenario(seconds) ==
    /\ obs_params_t_exp = <<seconds * TicksPerSec>>
    /\ f_smp = 120
    /\ chunk_len = 10 * TicksPerSec

\* C1: whenever the planner returns, the chunks concatenated in list order are
\* the whole timeline, each sample index 0..N-1 once, in increasing order
C1_ChunksTileTimeline ==
    PlannerReturned =>
        LET flat == Flatten(t_chunks) IN
        /\ Len(flat) = Len(Arange(t_exp, f_smp))
        /\ \A i \in 1..Len(flat) : flat[i] = i - 1

C1_Witness ==
    /\ PlannerReturned
    /\ Len(t_chunks) >= 2
    /\ Len(t_chunks) < Len(Naive)

C3_EvaluateThenWriteInOrder ==
    (pc \in {"eval", "write", "done"}) =>
        /\ evaluated = [i \in 1..Len(evaluated) |-> i - 1]
        /\ sink = [i \in 1..Len(sink) |-> TodEval(t_chunks[i])]
        /\ Len(sink) = ci
        /\ Len(evaluated) = Len(sink) + (IF pc = "write" THEN 1 ELSE 0)
        /\ (pc = "eval" => ci < Len(t_chunks))
        /\ (pc = "done" => Len(sink) = Len(t_chunks))

C3_Witness == pc = "done" /\ Len(t_chunks) >= 3 /\ Len(sink) = Len(t_chunks)

\* C4: when the evaluation of chunk k fails, run has ended with that error:
\* chunk k was evaluated once, no later chunk was evaluated, chunks 0..k-1 and
\* no others are in the sink, the setup files are in place, and run takes no
\* further step
C4_EvalFailureAborts ==
    (err = "EvalError") =>
        /\ pc = "error"
        /\ evaluated = [i \in 1..(ci + 1) |-> i - 1]
        /\ sink = [i \in 1..ci |-> TodEval(t_chunks[i])]
        /\ output_dir
        /\ output_files = SetupFiles
        /\ ~ENABLED Next

C4_Witness == err = "EvalError" /\ ci >= 2 /\ ci + 1 < Len(t_chunks)

\* C5: with two or more chunks in the naive split, the last is merged into
\* its predecessor iff its length is under a tenth of the predecessor's; the
\* chunks before those two stay as they were
C5_MergeIffUnderTenth ==
    PlannerReturned =>
        LET n == Len(Naive) IN
        n >= 2 =>
            IF Len(Naive[n]) * 10 < Len(Naive[n - 1])
            THEN /\ Len(t_chunks) = n - 1
                 /\ t_chunks[n - 1] = Naive[n - 1] \o Naive[n]
                 /\ \A i \in 1..(n - 2) : t_chunks[i] = Naive[i]
            ELSE t_chunks = Naive

C5_Witness ==
    /\ PlannerReturned
    /\ Len(Naive) >= 3
    /\ Len(t_chunks) = Len(Naive) - 1

\* C6 as stated: 101 s at 120 Hz in 10 s chunks: the last naive chunk has 120
\* samples, the merge fires, 9 chunks are returned, the last of 2520 samples
C6_Scenario101Merges ==
    (IsScenario(101) /\ pc /= "init") =>
        /\ PlannerReturned
        /\ Len(Naive[Len(Naive)]) = 120
        /\ Len(t_chunks) = 9
        /\ Len(t_chunks[Len(t_chunks)]) = 2520

\* C6 amended: 101 s at 120 Hz in 10 s chunks: the last naive chunk has 120
\* samples, which is not under a tenth of 1200, so the merge does not fire and
\* 11 chunks are returned, the last of 120 samples
C6_Scenario101NoMerge ==
    (IsScenario(101) /\ pc /= "init") =>
        /\ PlannerReturned
        /\ Len(Naive[Len(Naive)]) = 120
        /\ t_chunks = Naive
        /\ Len(t_chunks) = 11
        /\ \A i \in 1..10 : Len(t_chunks[i]) = 1200
        /\ Len(t_chunks[11]) = 120

C6_Witness == IsScenario(101) /\ pc = "done" /\ Len(sink) = 11

\* C7: 100 s at 120 Hz in 10 s chunks: 10 chunks of 1200 samples, no merge
C7_Scenario100TenChunks ==
    (IsScenario(100) /\ pc /= "init") =>
        /\ PlannerReturned
        /\ Len(t_chunks) = 10
        /\ \A i \in 1..Len(t_chunks) : Len(t_chunks[i]) = 1200
        /\ t_chunks = Naive

C7_Witness == IsScenario(100) /\ pc = "done" /\ Len(sink) = 10

\* C8 as stated: a naive split ending with a chunk of 1 sample after a chunk
\* of 10 or more samples is returned with those two chunks merged
C8_MergeWhenPrevAtLeast10 ==
    PlannerReturned =>
        LET n == Len(Naive) IN
        (n >= 2 /\ Len(Naive[n]) = 1 /\ Len(Naive[n - 1]) >= 10) =>
            /\ Len(t_chunks) = n - 1
            /\ t_chunks[n - 1] = Naive[n - 1] \o Naive[n]

\* C8 amended: a naive split ending with a chunk of 1 sample after a chunk of
\* 11 or more samples is returned with those two chunks merged
C8_MergeWhenPrevAtLeast11 ==
    PlannerReturned =>
        LET n == Len(Naive) IN
        (n >= 2 /\ Len(Naive[n]) = 1 /\ Len(Naive[n - 1]) >= 11) =>
            /\ Len(t_chunks) = n - 1
            /\ t_chunks[n - 1] = Naive[n - 1] \o Naive[n]

C8_Witness ==
    /\ PlannerReturned
    /\ Len(Naive) >= 3
    /\ Len(Naive[Len(Naive)]) = 1
    /\ Len(Naive[Len(Naive) - 1]) >= 11
    /\ Len(t_chunks) = Len(Naive) - 1

IsToltecInfo == fs_pc = "returned" /\ info /= NoneObj /\ info.instru = S_toltec

\* C10 as stated: a TolTEC file name without a kind part is classified with
\* kindstr "timestream" when its extension is nc and "ancillary" otherwise
C10_KindstrDefault ==
    (IsToltecInfo /\ ReToltecFile(filename).kindstr = None) =>
        info.kindstr = IF Lower(ReToltecFile(filename).fileext) = S_nc
                       THEN S_timestream
                       ELSE S_ancillary

\* str(n) for n >= 0
RECURSIVE FormatInt(_)
FormatInt(n) ==
    IF n < 10 THEN <<DigitChars[n + 1]>>
    ELSE FormatInt(n \div 10) \o <<DigitChars[(n % 10) + 1]>>

\* a string of digits without its leading zeros, "0" when it is all zeros
RECURSIVE StripZeros(_)
StripZeros(str) ==
    IF Len(str) > 1 /\ Head(str) = "0" THEN StripZeros(Tail(str)) ELSE str

\* n in at least width digits, as %Y, %m, %d, %H, %M and %S of strftime write it
RECURSIVE ZeroPad(_, _)
ZeroPad(str, width) ==
    IF Len(str) >= width THEN str ELSE ZeroPad(<<"0">> \o str, width)

\* strftime('%Y_%m_%d_%H_%M_%S')
StrftimeToltec(dt) ==
    ZeroPad(FormatInt(dt.year), 4) \o U \o ZeroPad(FormatInt(dt.month), 2) \o U
    \o ZeroPad(FormatInt(dt.day), 2) \o U \o ZeroPad(FormatInt(dt.hour), 2) \o U
    \o ZeroPad(FormatInt(dt.minute), 2) \o U \o ZeroPad(FormatInt(dt.second), 2)

\* a call of _info_from_filename has ended, by a return or by an exception
DirectCallDone == fs_pc \in {"returned", "raised"}

\* a call of info_from_filename has ended
PathCallDone == fs_pc \in {"path_returned", "path_raised"}

\* the path whose name the call classified: what the symlink resolves to when
\* info_from_filename resolved it
ClassifiedPath ==
    IF PathCallDone THEN ResolvePath(Path, link_target, resolve) ELSE Path

\* C11 as stated: for every file name of the TolTEC grammar, _info_from_filename
\* returns a dict, never None and never an error; its nwid, obsid, subobsid and
\* scanid are the integers that the matched digits write, its ut is the
\* timestamp that the matched text writes, and the fields the dispatch table
\* does not list are strings: interface, instru and fileext the matched text,
\* and kindstr the matched text when the file is an nc file with a kind part
C11_ToltecMatchGivesRecord ==
    (DirectCallDone /\ ReToltecFile(filename) /= NoneObj) =>
        /\ fs_pc = "returned"
        /\ info /= NoneObj
        /\ LET g == ReToltecFile(filename) IN
            /\ \A k \in {"nwid", "obsid", "subobsid", "scanid"} :
                FormatInt(info[k]) = StripZeros(g[k])
            /\ info.ut.valid
            /\ StrftimeToltec(info.ut) = g.ut
            /\ info.interface = g.interface
            /\ info.instru = g.instru
            /\ info.fileext = g.fileext
            /\ (g.kindstr /= None /\ Lower(g.fileext) = S_nc) => info.kindstr = g.kindstr

\* C12: the first pattern that matches the name gives the dict, TolTEC before
\* Wyatt, with the dispatch and the post hook of that pattern alone: a TolTEC
\* dict has nwid and the kindstr of post_toltec, a Wyatt dict has no nwid, a date
\* at midnight and the kindstr that was matched.  A name that no pattern
\* matches gives None, no exception, and so no source and no master.
C12_FirstMatchOrNone ==
    LET n == ClassifiedPath.name IN
    (DirectCallDone \/ PathCallDone) =>
        /\ (ReToltecFile(n) /= NoneObj /\ info /= NoneObj /\ "raised" \notin DOMAIN info) =>
            /\ info.instru = S_toltec
            /\ "nwid" \in DOMAIN info
            /\ info.ut = StrptimeToltec(ReToltecFile(n).ut)
            /\ Lower(info.fileext) /= S_nc => info.kindstr = S_ancillary
        /\ (ReToltecFile(n) = NoneObj /\ ReWyattFile(n) /= NoneObj
                /\ info /= NoneObj /\ "raised" \notin DOMAIN info) =>
            /\ info.instru = S_wyatt
            /\ "nwid" \notin DOMAIN info
            /\ info.ut = StrptimeWyatt(ReWyattFile(n).ut)
            /\ info.kindstr = ReWyattFile(n).kindstr
        /\ (ReToltecFile(n) = NoneObj /\ ReWyattFile(n) = NoneObj) =>
            /\ info = NoneObj
            /\ fs_pc \in {"returned", "path_returned"}

\* info_from_filename classified a Wyatt name that has a kind part and is no nc file
C12_Witness ==
    /\ fs_pc = "path_returned"
    /\ ReWyattFile(ClassifiedPath.name) /= NoneObj
    /\ info /= NoneObj
    /\ ReWyattFile(ClassifiedPath.name).kindstr /= None
    /\ Lower(info.fileext) /= S_nc
    /\ info.source = ClassifiedPath

\* C13: the master of a classified path is the name of the directory the file
\* is in, unless that name is the interface of the dict: then it is the name of
\* the directory above, whatever that name is (one level up, never two); a
\* directory that is not there has the name ""
C13_MasterOneLevelUp ==
    LET d == ClassifiedPath.dirs IN
    (fs_pc = "path_returned" /\ info /= NoneObj) =>
        /\ info.source = ClassifiedPath
        /\ Len(d) = 0 => info.master = <<>>
        /\ (Len(d) >= 1 /\ d[Len(d)] /= info.interface) => info.master = d[Len(d)]
        /\ (Len(d) = 1 /\ d[1] = info.interface) => info.master = <<>>
        /\ (Len(d) >= 2 /\ d[Len(d)] = info.interface) => info.master = d[Len(d) - 1]

\* the file is under two directories that are both named as its interface
C13_Witness ==
    /\ fs_pc = "path_returned"
    /\ info /= NoneObj
    /\ Len(ClassifiedPath.dirs) = 2
    /\ ClassifiedPath.dirs[1] = info.interface
    /\ ClassifiedPath.dirs[2] = info.interface
    /\ info.master = info.interface

\* the command line arguments hold a key that the schema does not have, in the
\* dict of simu or in a dict below it
HasUnrecognisedKey ==
    /\ cli_args /= NoneObj
    /\ \E x \in Under("simu", cli_args.cfg).nodes \cup DOMAIN Under("simu", cli_args.cfg).leaves :
            x \notin SchemaLeaves \cup SchemaNodes

\* nothing of run has happened
NoOutput ==
    /\ pc = "idle"
    /\ output_dir = FALSE
    /\ output_files = {}
    /\ evaluated = <<>>
    /\ sink = <<>>
    /\ t_chunks = <<>>

\* C14: when the command line arguments of cli_run hold a key that the schema
\* does not have, at any depth, cli_run ends with an error before it calls
\* run: there is no output directory, no config snapshot, no metadata and no
\* chunk data
C14_UnrecognisedKeyAbortsBeforeRun ==
    (HasUnrecognisedKey /\ cli_pc /= "call") =>
        /\ cli_pc = "raised"
        /\ cli_err \in {"SchemaError", "SimulatorRuntimeError"}
        /\ NoOutput

\* a key that the lenient schema of simu.mapping dropped was found by
\* _check_ignored two dicts down
C14_Witness ==
    /\ HasUnrecognisedKey
    /\ cli_pc = "raised"
    /\ cli_err = "SimulatorRuntimeError"
    /\ <<"mapping", "bogus">> \in DOMAIN cli_args.cfg.leaves
    /\ NoOutput

\* the image HDU of the coverage map in s / pix, as _make_cov_hdulist made it
OriginalCovHDU == MakeCovHduApprox(bs_xy, det_xy, pixel_shape, dt_smp)

\* C15 as stated: after the conversion to the depth map, the image HDU of
\* cov_hdulist_s_per_pix still has the pixel data and the BUNIT 's / pix' it
\* was made with, and the primary HDU is as it was made
C15_DepthConversionKeepsOriginal ==
    (cov_pc = "done" /\ coverage_map_type = "depth") =>
        /\ hdus[cov_hdulist_s_per_pix[2]].header.BUNIT = "s / pix"
        /\ hdus[cov_hdulist_s_per_pix[2]].data = OriginalCovHDU.data
        /\ hdus[cov_hdulist_s_per_pix[1]] = PrimaryHDU

\* C16: in the depth map, a pixel whose coverage is above 2% of the peak holds
\* sens_coeff * nefd / sqrt(cov * beam_area_pix2), the square root of
\* 2 * nefd^2 / (cov * beam_area_pix2), and a pixel whose coverage is 2% of the
\* peak or less holds exactly zero; so a uniform map gives that value everywhere
C16_DepthFormula ==
    cov_pc = "done" =>
        LET cov == cov_data
            peak == CovMax(cov_data)
        IN  \A j \in 1..pixel_shape.ny, i \in 1..pixel_shape.nx :
                LET d == cov_data_mJy_per_beam[j][i] IN
                IF 100 * cov[j][i].num > 2 * peak
                THEN /\ d.root
                     /\ d.den > 0
                     /\ d.num * cov[j][i].num * beam_area_pix2
                            = d.den * SensCoeff2 * nefd * nefd * cov[j][i].den
                ELSE d = Rat(0, 1)

\* a map with a pixel above the 2%, a covered pixel at exactly 2% of the peak
\* and a pixel without coverage
C16_Witness ==
    /\ cov_pc = "done"
    /\ \E j \in 1..pixel_shape.ny, i \in 1..pixel_shape.nx :
        cov_data[j][i].num > 0 /\ 50 * cov_data[j][i].num = CovMax(cov_data)
    /\ \E j \in 1..pixel_shape.ny, i \in 1..pixel_shape.nx : cov_data[j][i].num = 0
    /\ \E j \in 1..pixel_shape.ny, i \in 1..pixel_shape.nx : m_cov[j][i]

\* C17: the sum of the boresight histogram in s per pixel, the coverage map
\* before the convolutions, is the number of samples times the sample interval
C17_ExposureConserved ==
    cov_pc /= "call" => ImSum(bs_im) = Len(bs_xy) * dt_smp

\* samples on an edge between pixels and on the last edge of the grid
C17_Witness ==
    /\ cov_pc /= "call"
    /\ \E k \in 1..Len(bs_xy) : bs_xy[k].x = 2 * pixel_shape.nx
    /\ \E k \in 1..Len(bs_xy) : bs_xy[k].y = 2 * pixel_shape.ny
    /\ \E k \in 1..Len(bs_xy) : bs_xy[k].x = 0
    /\ ImSum(bs_im) = Len(bs_xy) * dt_smp

\* the version the executable declares does not satisfy version_specifiers: a
\* release outside a range of the set, or no version at all against a set
\* that is not empty
VersionMismatch ==
    /\ version_specifiers /= NoneObj
    /\ \E sp \in version_specifiers.set :
        \/ exe_version = NoneObj
        \/ sp.op = ">=" /\ exe_version.release < sp.v
        \/ sp.op = "<" /\ exe_version.release >= sp.v

\* the runs that are no query of the version: the launches of the reduction
Launches == {i \in 1..Len(events) : events[i].kind = "run" /\ events[i].what[2] /= W_version}

\* C18: when version_specifiers is given and the declared version does not
\* satisfy it, the constructor ends with an error after one query of the
\* version: there is no engine, no second query, no call of proc and no launch
C18_VersionMismatchIsFatal ==
    (VersionMismatch /\ red_pc /= "construct") =>
        /\ red_pc = "construct_raised"
        /\ red_err \in {"RuntimeError", "InvalidVersion"}
        /\ engine = NoneObj
        /\ n_proc = 0
        /\ Len(events) = 1
        /\ Launches = {}

\* release 1 against '>=2'
C18_Witness ==
    /\ red_pc = "construct_raised"
    /\ red_err = "RuntimeError"
    /\ exe_version = Release(1)
    /\ version_specifiers = [set |-> {[op |-> ">=", v |-> 2]}]

\* the writes of citlali.yaml
ConfigWrites ==
    {i \in 1..Len(events) : events[i].kind = "write" /\ events[i].what = outdir \o <<"citlali.yaml">>}

\* C19: every launch of the executable comes after a write of citlali.yaml of
\* its own call, which holds the resolved inputs and the output path; its
\* command line is the executable and the path of that file, nothing more;
\* there is one launch for each call of proc that got to it; and the call ends
\* with an error exactly when the executable exits with a code that is not 0
C19_WriteThenLaunchOnce ==
    /\ \A i \in Launches :
        /\ Len(events[i].what) = 2
        /\ events[i].what[1] = engine.binpath
        /\ events[i].what[2] = outdir \o <<"citlali.yaml">>
        /\ i > 1
        /\ (i - 1) \in ConfigWrites
        /\ events[i - 1].content.runtime.output_filepath = outdir \o <<"/">>
        /\ events[i - 1].content.inputs = cfg.inputs
    /\ Cardinality(ConfigWrites) = n_proc
    /\ Cardinality(Launches) = IF red_pc = "proc_written" THEN n_proc - 1 ELSE n_proc
    /\ red_pc = "proc_raised" =>
        /\ red_err = "CalledProcessError"
        /\ events[Len(events)].content.exit /= 0
    /\ red_pc = "proc_returned" =>
        /\ red_err = "none"
        /\ events[Len(events)].content.exit = 0

\* two calls of proc: the executable failed in one and the other returned
C19_Witness ==
    /\ n_proc = 2
    /\ red_pc = "proc_returned"
    /\ Cardinality(Launches) = 2
    /\ \E i \in Launches : events[i].content.exit /= 0
    /\ Len(cfg.inputs) >= 1

\* where the entries of a row are in cfg['inputs']: the item, the list, the index
Places(row) ==
    {<<g, list, k>> \in (1..Len(cfg.inputs)) \X {"data_items", "cal_items"} \X (1..Len(index_table)) :
        /\ k <= Len(cfg.inputs[g][list])
        /\ cfg.inputs[g][list][k].meta.interface = row.interface
        /\ cfg.inputs[g][list][k].filepath \in {row.source, FixApt(row.source)}}

SameGroup(r1, r2) ==
    /\ r1.obsnum = r2.obsnum
    /\ r1.subobsnum = r2.subobsnum
    /\ r1.scannum = r2.scannum
    /\ r1.master = r2.master
    /\ r1.repeat = r2.repeat

Rows == {index_table[i] : i \in 1..Len(index_table)}

\* C20: cfg['inputs'] has one item for each (obsnum, subobsnum, scannum, master,
\* repeat) of the index table; a row with instru 'toltec' or interface 'lmt'
\* is once in data_items, another row with interface 'apt' is once in
\* cal_items, any other row is nowhere; and two rows are in the same item
\* exactly when they are of the same group
C20_OneItemPerGroupOneBucketPerRow ==
    red_pc \in {"proc_written", "proc_returned", "proc_raised"} =>
        /\ Len(cfg.inputs) = Cardinality({<<r.obsnum, r.subobsnum, r.scannum, r.master, r.repeat>> : r \in Rows})
        /\ \A r \in Rows :
            IF r.instru = "toltec" \/ r.interface = "lmt"
            THEN Cardinality(Places(r)) = 1 /\ \A pl \in Places(r) : pl[2] = "data_items"
            ELSE IF r.interface = "apt"
            THEN Cardinality(Places(r)) = 1 /\ \A pl \in Places(r) : pl[2] = "cal_items"
            ELSE Places(r) = {}
        /\ \A r1 \in Rows, r2 \in Rows : \A p1 \in Places(r1), p2 \in Places(r2) :
            (p1[1] = p2[1]) <=> SameGroup(r1, r2)

\* two groups, a row in data_items, a row in cal_items and a row that is skipped
C20_Witness ==
    /\ red_pc = "proc_written"
    /\ Len(cfg.inputs) = 2
    /\ \E g \in 1..Len(cfg.inputs) : Len(cfg.inputs[g].data_items) >= 1
    /\ \E g \in 1..Len(cfg.inputs) : Len(cfg.inputs[g].cal_items) >= 1
    /\ \E r \in Rows : Places(r) = {}

\* run without plot_only has bound its exposure time
ExposureBound == ~plot_only /\ pc \notin {"init", "idle"}

\* the pre-run setup time grid that the evaluator was made with
SetupGrid == tod_evaluators[1]

\* the grid g is num points, evenly spaced from 0 to stop ticks, both included
Spans(g, stop, num) ==
    /\ Len(g.points) = num
    /\ g.points[1] = 0
    /\ g.points[num] = stop * g.den
    /\ \A i \in 1..(num - 1) : g.points[i + 1] - g.points[i] = g.points[2] - g.points[1]

\* C21: when obs_params.t_exp is unset, run takes the pattern duration of the
\* mapping model as the exposure time: the chunk plan tiles the samples of the
\* pattern duration, the pre-run setup grid ends at it, and run raises nothing
\* on that account (the planner raises only when chunk_len spans less than one
\* sample); when t_exp is set, the plan and the grid are those of t_exp
C21_PatternDurationWhenUnset ==
    ExposureBound =>
        LET T == IF obs_params_t_exp = <<>> THEN t_pattern ELSE obs_params_t_exp[1] IN
        /\ t_exp = T
        /\ (err = "ZeroDivisionError") = (chunk_len * f_smp < TicksPerSec)
        /\ PlannerReturned =>
                Flatten(t_chunks) = [i \in 1..Len(Arange(T, f_smp)) |-> i - 1]
        /\ tod_evaluators /= <<>> => Spans(SetupGrid, T, grid_size)

C21_Witness ==
    /\ ExposureBound
    /\ obs_params_t_exp = <<>>
    /\ t_pattern > 0
    /\ pc = "done"
    /\ Len(sink) >= 2
    /\ Len(Flatten(t_chunks)) = Len(Arange(t_pattern, f_smp))

\* C23: the evaluator is made with the pre-run setup time grid
\* (pre_run_setup_time_grid_size points from 0 to t_exp) once in a run: no
\* chunk is evaluated before it is, it is there once the loop over the chunks
\* begins, and it is not made again for a chunk
C23_SetupOnceBeforeChunks ==
    /\ Len(tod_evaluators) <= 1
    /\ evaluated /= <<>> => Len(tod_evaluators) = 1
    /\ pc \in {"eval", "write", "done"} =>
        /\ Len(tod_evaluators) = 1
        /\ Spans(SetupGrid, t_exp, grid_size)

C23_Witness ==
    /\ pc = "done"
    /\ Len(evaluated) >= 3
    /\ Len(tod_evaluators) = 1
    /\ grid_size = MaxGridSize
    /\ t_exp > 0

\* C30: with plot_only set, run calls the plotters of cfg.plots in list order,
\* each once, and returns their results; it plans no chunks, creates no output
\* directory and no log file, writes no config snapshot and no metadata, makes
\* no evaluator, and evaluates and writes no chunk
C30_PlotOnlyOnlyPlots ==
    (plot_only /\ pc \notin {"init", "idle"}) =>
        /\ pc \in {"plotted", "error"}
        /\ plotted = SubSeq(plots, 1, Len(plotted))
        /\ pc = "plotted" =>
            /\ plotted = plots
            /\ Len(results) = Len(plots)
            /\ \A i \in 1..Len(plots) : results[i] = PlotResult(plots[i])
        /\ t_chunks = <<>>
        /\ ~output_dir
        /\ ~log_file
        /\ output_files = {}
        /\ tod_evaluators = <<>>
        /\ evaluated = <<>>
        /\ sink = <<>>

C30_Witness ==
    /\ plot_only
    /\ pc = "plotted"
    /\ Len(plots) = 3
    /\ Len(results) = 3

\* the chunk c holds the consecutive samples from sample index first on
Contiguous(c, first) == \A k \in 1..Len(c) : c[k] = first + k - 1

\* C24: before the merge the N samples are split into ceil(N / n_per_chunk)
\* chunks, n_per_chunk being chunk_len * f_smp cut to a whole number: chunk i
\* holds the consecutive samples from (i - 1) * n_per_chunk on, every chunk
\* but the last holds n_per_chunk samples and the last holds 1 to n_per_chunk
C24_NaiveSplit ==
    PlannerReturned =>
        LET N == Len(Arange(t_exp, f_smp))
            npc == (chunk_len * f_smp) \div TicksPerSec
            n == Len(Naive)
        IN  /\ n = -((-N) \div npc)
            /\ \A i \in 1..n : Contiguous(Naive[i], (i - 1) * npc)
            /\ \A i \in 1..(n - 1) : Len(Naive[i]) = npc
            /\ n >= 1 => (1 <= Len(Naive[n]) /\ Len(Naive[n]) <= npc)

C24_Witness ==
    /\ PlannerReturned
    /\ Len(Naive) >= 3
    /\ Len(Naive[1]) >= 2
    /\ Len(Naive[Len(Naive)]) < Len(Naive[1])
    /\ t_chunks = Naive

\* C27: every chunk the planner returns has fewer than 1.1 * n_per_chunk
\* samples, and of two or more returned chunks the last has at least a tenth
\* of the samples of the one before it
C27_ChunkSizeBounded ==
    PlannerReturned =>
        LET npc == (chunk_len * f_smp) \div TicksPerSec
            n == Len(t_chunks)
        IN  /\ \A i \in 1..n : Len(t_chunks[i]) * 10 < 11 * npc
            /\ n >= 2 => Len(t_chunks[n]) * 10 >= Len(t_chunks[n - 1])

C27_Witness ==
    /\ PlannerReturned
    /\ Len(t_chunks) >= 2
    /\ Len(t_chunks[Len(t_chunks)]) > (chunk_len * f_smp) \div TicksPerSec

\* the spellings of the extension nc
NcSpellings == {<<a, b>> : a \in {"n", "N"}, b \in {"c", "C"}}

\* the kind part that the name of the TolTEC grammar states, None without one
KindPart == ReToltecFile(filename).kindstr

\* C29: a TolTEC file name with a kind part is classified with that kind part
\* as kindstr when its extension is nc in any case of the letters, and with
\* kindstr "ancillary" for any other extension
C29_KindKeptOnlyForNc ==
    (IsToltecInfo /\ KindPart /= None) =>
        info.kindstr = IF info.fileext \in NcSpellings THEN KindPart ELSE S_ancillary

C29_Witness ==
    /\ IsToltecInfo
    /\ KindPart = <<"t", "u", "n", "e">>
    /\ info.fileext = <<"n", "C">>
    /\ info.kindstr = KindPart

\* the last access of simu_config gave a config object
GotObject == accessed /= NoneObj /\ "raised" \notin DOMAIN accessed.obj

\* C26: an access of simu_config gives an object that was validated after the
\* last call of update before the access, never one validated before it; the
\* object it gives stays cached until the next call of update, and the cache
\* never holds an object validated before the last call of update
C26_AccessNeverStale ==
    /\ GotObject => accessed.obj.validated_at = accessed.at
    /\ (GotObject /\ accessed.at = n_update) => simu_config = accessed.obj
    /\ simu_config /= NoneObj => simu_config.validated_at = n_update

C26_Witness ==
    /\ GotObject
    /\ accessed.at >= 2
    /\ accessed.obj.validated_at = accessed.at
    /\ simu_config = accessed.obj
    /\ accessed.obj.cfg.leaves[P_chunk_len] = 1

\* the config of the command line arguments, under the key simu
CliCfg == Under("simu", cli_args.cfg)

\* the dict d holds everything that the dict u holds
Holds(d, u) ==
    /\ u.nodes \subseteq d.nodes
    /\ \A q \in DOMAIN u.leaves : q \in DOMAIN d.leaves /\ d.leaves[q] = u.leaves[q]

\* C28: when cli_run has raised SimulatorRuntimeError for a key of the command
\* line that the schema does not have, run was not called, and the override
\* config and the config of the runtime hold what the command line gave: the
\* update was made, the cached simu_config of before the call is gone, and
\* nothing was rolled back
C28_OverridesSurviveError ==
    (cli_err = "SimulatorRuntimeError") =>
        /\ cli_pc = "raised"
        /\ pc = "idle"
        /\ n_update = 1
        /\ override_config /= MkDict(<<>>, {})
        /\ Holds(override_config, CliCfg)
        /\ Holds(Config(base_config, override_config), CliCfg)
        /\ simu_config /= NoneObj /\ simu_config.validated_at = 1

C28_Witness ==
    /\ cli_err = "SimulatorRuntimeError"
    /\ P_t_exp \in DOMAIN CliCfg.leaves
    /\ P_t_exp \in DOMAIN base_config.leaves
    /\ base_config.leaves[P_t_exp] /= CliCfg.leaves[P_t_exp]
    /\ Config(base_config, override_config).leaves[P_t_exp] = CliCfg.leaves[P_t_exp]
    /\ simu_config.cfg.leaves[P_t_exp] = CliCfg.leaves[P_t_exp]

\* C22: the setup command with --dry_run creates no directory and no file;
\* the setup file of the workdir is not written
C22_DryRunCreatesNothing ==
    (setup_pc /= "idle" /\ option.dry_run) =>
        /\ created = {}
        /\ SetupFile \notin workdir.files
        /\ workdir.setup = NoneObj

\* C25: the image that the contours of the outline are taken from is the
\* coverage map cut at 10% of its peak: a pixel whose coverage is at or below
\* 10% of the peak is zero in it and so is outside of every contour
C25_OutlineFromTenthOfPeak ==
    (cov_pc = "done") =>
        \A j \in 1..Len(cov_data), i \in 1..Len(cov_data[1]) :
            (10 * cov_data[j][i].num <= CovMax(cov_data)) => cov_ctr[j][i].num = 0

====
